---- MODULE Spec2Model ----
(***************************************************************************)
(* Live2dRender: the audio-driven lip-sync pipeline.                       *)
(*                                                                         *)
(* The repository holds two implementations of "WAV decode + streaming     *)
(* RMS": the standalone LAppWavFileHandler (with the module-level          *)
(* function parseWav) and the AudioAnalyser that Live2DModel drives every  *)
(* frame.  Both are modelled here from their code, together with the voice *)
(* functions of engine.ts that start and stop a motion's sound, and with   *)
(* Live2DManager's loading and removal of models.                          *)
(*                                                                         *)
(* Representation of numbers                                               *)
(*   - a byte buffer (ArrayBuffer / DataView) is a sequence of 0..255;     *)
(*     byte offset o of the code is element o+1 of the sequence;           *)
(*   - a decoded sample (a float) is the reduced fraction <<n, d>>, d a    *)
(*     power of two;                                                       *)
(*   - a loudness (the RMS, a float in [0,1]) is a fixed-point integer in  *)
(*     units of 1/RmsScale, the floor of the exact square root;            *)
(*   - time is counted in ticks of 1/TicksPerSecond seconds.               *)
(***************************************************************************)
EXTENDS Integers, Sequences, FiniteSets, TLC

(***************************************************************************)
(* Bounds of the model.                                                    *)
(***************************************************************************)
RmsScale == 128
TicksPerSecond == 2
MaxDelta == 2
MaxTime == 4
MaxStarts == 2
MaxModels == 3
MaxHandlers == 2
MaxClock == 4
MaxMessages == 3
MaxDuration == 2
MaxRequests == 4
MaxInits == 3
MaxFetches == 3
MaxVersions == 2

(***************************************************************************)
(* DataView reads.  A read outside the buffer raises a RangeError in the   *)
(* code; InRange is the condition under which it does not.                 *)
(***************************************************************************)
byteLength(view) == Len(view)

InRange(view, offset, n) == offset >= 0 /\ offset + n <= Len(view)

getUint8(view, offset) == view[offset + 1]

getUint16(view, offset) == view[offset + 1] + 256 * view[offset + 2]

getUint32(view, offset) ==
  view[offset + 1] + 256 * view[offset + 2] + 65536 * view[offset + 3]
    + 16777216 * view[offset + 4]

getInt16(view, offset) ==
  LET u == getUint16(view, offset)
  IN  IF u >= 32768 THEN u - 65536 ELSE u

getInt32(view, offset) ==
  LET b3 == view[offset + 4]
      hi == IF b3 >= 128 THEN b3 - 256 ELSE b3
  IN  view[offset + 1] + 256 * view[offset + 2] + 65536 * view[offset + 3]
        + 16777216 * hi

readFourCC(view, offset) ==
  << getUint8(view, offset), getUint8(view, offset + 1),
     getUint8(view, offset + 2), getUint8(view, offset + 3) >>

\* The four tags, as the character codes String.fromCharCode compares.
TagRIFF == << 82, 73, 70, 70 >>
TagWAVE == << 87, 65, 86, 69 >>
TagFmt == << 102, 109, 116, 32 >>
TagData == << 100, 97, 116, 97 >>

(***************************************************************************)
(* Floats.  A sample is << n, e >>, the number n / 2^e in lowest terms.    *)
(***************************************************************************)
RECURSIVE Frac(_, _)
Frac(n, e) ==
  IF n = 0 THEN << 0, 0 >>
  ELSE IF n % 2 = 0 /\ e > 0 THEN Frac(n \div 2, e - 1)
  ELSE << n, e >>

\* The number of low bits a 32-bit integer loses in a float's 24-bit mantissa.
DroppedBits(n) ==
  LET a == IF n < 0 THEN -(n + 1) ELSE n
  IN  IF a < 16777216 THEN 0
      ELSE CHOOSE k \in 1..8 : a \div (2 ^ k) < 16777216 /\ a \div (2 ^ (k - 1)) >= 16777216

\* Storing n / 2^e into a Float32Array element: round to nearest, ties to even.
Fround(n, e) ==
  LET k == DroppedBits(n)
  IN  IF k = 0 THEN Frac(n, e)
      ELSE LET q == n \div (2 ^ k)
               r == n % (2 ^ k)
               half == 2 ^ (k - 1)
               up == r > half \/ (r = half /\ q % 2 = 1)
           IN  Frac(IF up THEN q + 1 ELSE q, e - k)

\* Math.max(-1, Math.min(1, v))
Clamp(v) ==
  IF v[2] <= 30 /\ v[1] > 2 ^ v[2] THEN << 1, 0 >>
  ELSE IF v[2] <= 30 /\ v[1] < -(2 ^ v[2]) THEN << -1, 0 >>
  ELSE v

\* floor(v * RmsScale): the sample in units of 1/RmsScale.
Quantize(v) ==
  IF v[2] <= 12 THEN (v[1] * RmsScale) \div (2 ^ v[2])
  ELSE LET hi == v[1] \div 4096
           lo == v[1] % 4096
       IN  (hi * RmsScale + (lo * RmsScale) \div 4096) \div (2 ^ (v[2] - 12))

\* v * v, in units of 1/RmsScale^2.
Square(v) == Quantize(v) * Quantize(v)

RECURSIVE RootBetween(_, _, _)
\* The largest integer in lo..hi whose square is at most m, by bisection.
RootBetween(m, lo, hi) ==
  IF lo = hi THEN lo
  ELSE LET mid == (lo + hi + 1) \div 2
       IN  IF mid * mid <= m THEN RootBetween(m, mid, hi) ELSE RootBetween(m, lo, mid - 1)

\* A root taken of the sum of squares, the division by the count left out.
SqrtOfSum(sum, count) == RootBetween(sum, 0, sum)

\* Math.sqrt(sum / count), in units of 1/RmsScale.
Sqrt(sum, count) == RootBetween(sum \div count, 0, sum \div count)

(***************************************************************************)
(* parseWav of the standalone handler: a pure function of the buffer.      *)
(* Its outcome is [kind |-> "null"] (return null), [kind |-> "throw"] (a   *)
(* DataView read raised a RangeError) or [kind |-> "ok", wav |-> ParsedWav]*)
(***************************************************************************)
Null == [kind |-> "null"]
Throw == [kind |-> "throw"]

\* The loop's variables before the first iteration.
ChunkInit ==
  [offset |-> 12, fmtOffset |-> -1, fmtSize |-> 0, dataOffset |-> -1, dataSize |-> 0]

\* One iteration of the chunk loop.
ChunkStep(view, st) ==
  LET id == readFourCC(view, st.offset)
      size == getUint32(view, st.offset + 4)
      payload == st.offset + 8
  IN  [offset |-> payload + size + (size % 2),
       fmtOffset |-> IF id = TagFmt THEN payload ELSE st.fmtOffset,
       fmtSize |-> IF id = TagFmt THEN size ELSE st.fmtSize,
       dataOffset |-> IF id # TagFmt /\ id = TagData THEN payload ELSE st.dataOffset,
       dataSize |-> IF id # TagFmt /\ id = TagData THEN size ELSE st.dataSize]

RECURSIVE ChunkWalk(_, _)
ChunkWalk(view, st) ==
  IF st.offset + 8 <= byteLength(view) THEN ChunkWalk(view, ChunkStep(view, st)) ELSE st

Min(a, b) == IF a < b THEN a ELSE b

\* The sample read at byte offset p, normalised, clamped and stored in pcm[ch][i].
DecodeSample(view, p, bitsPerSample) ==
  IF bitsPerSample = 8 THEN Clamp(Frac(getUint8(view, p) - 128, 7))
  ELSE IF bitsPerSample = 16 THEN Clamp(Frac(getInt16(view, p), 15))
  ELSE IF bitsPerSample = 24 THEN
    LET u == getUint8(view, p) + 256 * getUint8(view, p + 1) + 65536 * getUint8(view, p + 2)
        v == IF u >= 8388608 THEN u - 16777216 ELSE u
    IN  Clamp(Frac(v, 23))
  ELSE Clamp(Fround(getInt32(view, p), 31))

\* The part of parseWav after the chunk loop.
DecodeChunks(view, st) ==
  IF st.fmtOffset < 0 \/ st.dataOffset < 0 THEN Null
  ELSE IF st.fmtOffset + Min(st.fmtSize, 16) > byteLength(view) THEN Null
  ELSE IF ~InRange(view, st.fmtOffset, 16) THEN Throw
  ELSE
    LET audioFormat == getUint16(view, st.fmtOffset + 0)
        channels == getUint16(view, st.fmtOffset + 2)
        sampleRate == getUint32(view, st.fmtOffset + 4)
        bitsPerSample == getUint16(view, st.fmtOffset + 14)
    IN  IF audioFormat # 1 THEN Null
        ELSE IF channels = 0 \/ sampleRate = 0 THEN Null
        ELSE IF bitsPerSample \notin {8, 16, 24, 32} THEN Null
        ELSE
          LET bytesPerSample == bitsPerSample \div 8
              frameBytes == channels * bytesPerSample
              available == Min(st.dataSize, byteLength(view) - st.dataOffset)
              frames == available \div frameBytes
              pcm == [ch \in 1..channels |->
                        [i \in 1..frames |->
                          DecodeSample(view,
                            st.dataOffset + ((i - 1) * channels + (ch - 1)) * bytesPerSample,
                            bitsPerSample)]]
          IN  [kind |-> "ok",
               wav |-> [sampleRate |-> sampleRate, channels |-> channels, pcm |-> pcm]]

RECURSIVE WalkOffsets(_, _)
\* The offsets at which the chunk loop tests its condition, in order.
WalkOffsets(view, st) ==
  IF st.offset + 8 <= byteLength(view)
  THEN << st.offset >> \o WalkOffsets(view, ChunkStep(view, st))
  ELSE << st.offset >>

parseWav(buffer) ==
  IF byteLength(buffer) < 12 THEN Null
  ELSE IF readFourCC(buffer, 0) # TagRIFF THEN Null
  ELSE IF readFourCC(buffer, 8) # TagWAVE THEN Null
  ELSE DecodeChunks(buffer, ChunkWalk(buffer, ChunkInit))

(***************************************************************************)
(* AudioAnalyser.parseWav: a method that reads the buffer and writes the   *)
(* analyser's fields as it goes.  this is the record of the fields; the    *)
(* outcome is [ret |-> "true" | "false" | "throw" | "hang", this |-> the   *)
(* fields as the call leaves them].  "throw" is a RangeError of a DataView *)
(* read; "hang" is the sample loop running with an infinite bound.         *)
(***************************************************************************)
Pcm(channels) == [kind |-> "ok", pcm |-> channels]

\* The "data" branch; offset is the payload offset.
AnalyserData(view, offset, chunkSize, this) ==
  LET cc == this.channelCount
  IN  IF cc = 0
      THEN \* samplesPerChannel is NaN (0/0) or Infinity; new Array(0) is []
        IF chunkSize = 0
        THEN [ret |-> "true",
              this |-> [this EXCEPT !.pcmData = Pcm(<< >>), !.sampleOffset = 0,
                                    !.userTimeSeconds = 0, !.lastRms = 0]]
        ELSE [ret |-> "hang", this |-> [this EXCEPT !.pcmData = Pcm(<< >>)]]
      ELSE
        LET \* new Float32Array(samplesPerChannel) truncates a fractional length
            length == chunkSize \div (2 * cc)
            \* for (i = 0; i < samplesPerChannel; i++) runs ceil(samplesPerChannel) times
            iterations == (chunkSize + 2 * cc - 1) \div (2 * cc)
            reads == iterations * cc
            readable == (byteLength(view) - offset) \div 2
            done == Min(reads, readable)
            pcm == [c \in 1..cc |->
                     [i \in 1..length |->
                       LET k == (i - 1) * cc + (c - 1)
                       IN  IF k < done THEN Frac(getInt16(view, offset + 2 * k), 15)
                           ELSE << 0, 0 >>]]
        IN  IF reads <= readable
            THEN [ret |-> "true",
                  this |-> [this EXCEPT !.pcmData = Pcm(pcm), !.sampleOffset = 0,
                                        !.userTimeSeconds = 0, !.lastRms = 0]]
            ELSE [ret |-> "throw", this |-> [this EXCEPT !.pcmData = Pcm(pcm)]]

RECURSIVE AnalyserChunkLoop(_, _, _)
AnalyserChunkLoop(view, offset, this) ==
  IF ~(offset < byteLength(view)) THEN [ret |-> "false", this |-> this]
  ELSE IF ~InRange(view, offset, 8) THEN [ret |-> "throw", this |-> this]
  ELSE
    LET chunkId == readFourCC(view, offset)
        chunkSize == getUint32(view, offset + 4)
        o == offset + 8
    IN  IF chunkId = TagFmt THEN
          IF ~InRange(view, o, 2) THEN [ret |-> "throw", this |-> this]
          ELSE IF getUint16(view, o) # 1 THEN [ret |-> "false", this |-> this]
          ELSE IF ~InRange(view, o + 2, 2) THEN [ret |-> "throw", this |-> this]
          ELSE
            LET t1 == [this EXCEPT !.channelCount = getUint16(view, o + 2)]
            IN  IF ~InRange(view, o + 4, 4) THEN [ret |-> "throw", this |-> t1]
                ELSE
                  LET t2 == [t1 EXCEPT !.sampleRate = getUint32(view, o + 4)]
                  IN  IF ~InRange(view, o + 14, 2) THEN [ret |-> "throw", this |-> t2]
                      ELSE IF getUint16(view, o + 14) # 16 THEN [ret |-> "false", this |-> t2]
                      ELSE AnalyserChunkLoop(view, o + chunkSize, t2)
        ELSE IF chunkId = TagData THEN AnalyserData(view, o, chunkSize, this)
        ELSE AnalyserChunkLoop(view, o + chunkSize, this)

\* getUint32(0, false) !== 0x52494646 compares the four bytes with "RIFF".
AudioAnalyser_parseWav(buffer, this) ==
  IF ~InRange(buffer, 0, 4) THEN [ret |-> "throw", this |-> this]
  ELSE IF readFourCC(buffer, 0) # TagRIFF THEN [ret |-> "false", this |-> this]
  ELSE IF ~InRange(buffer, 8, 4) THEN [ret |-> "throw", this |-> this]
  ELSE IF readFourCC(buffer, 8) # TagWAVE THEN [ret |-> "false", this |-> this]
  ELSE AnalyserChunkLoop(buffer, 12, this)

(***************************************************************************)
(* Input buffers.  WAV files are built from their parts; the set covers    *)
(* well-formed files of each shape and every way the decoders reject one.  *)
(***************************************************************************)
U16(n) == << n % 256, (n \div 256) % 256 >>
U32(n) == << n % 256, (n \div 256) % 256, (n \div 65536) % 256, (n \div 16777216) % 256 >>

Riff == TagRIFF \o U32(0) \o TagWAVE

Chunk(id, size, payload) == id \o U32(size) \o payload

FmtPayload(audioFormat, channels, sampleRate, bitsPerSample) ==
  U16(audioFormat) \o U16(channels) \o U32(sampleRate)
    \o U32(sampleRate * channels * (bitsPerSample \div 8))
    \o U16(channels * (bitsPerSample \div 8)) \o U16(bitsPerSample)

Fmt(audioFormat, channels, sampleRate, bitsPerSample) ==
  Chunk(TagFmt, 16, FmtPayload(audioFormat, channels, sampleRate, bitsPerSample))

\* Sample bytes: 16-bit 0.5, -0.5, 0.25, 1 - 2^-15; as 8-bit bytes they are 0, 64, 192, ...
Payloads ==
  { << >>,
    << 0, 64 >>,
    << 0, 64, 0, 192 >>,
    << 0, 64, 0, 192, 0, 32 >>,
    << 0, 64, 0, 192, 0, 32, 255, 127 >>,
    << 0, 64, 0 >> }

\* How many bytes more than the payload the data chunk declares.
Overdeclared == {0, 2, 3}

Wav(f) ==
  LET fmt == Fmt(f.audioFormat, f.channels, f.sampleRate, f.bitsPerSample)
      data == Chunk(TagData, Len(f.payload) + f.over, f.payload)
  IN  IF f.fmtFirst THEN Riff \o fmt \o data ELSE Riff \o data \o fmt

WavShapes ==
  [audioFormat : {1, 2}, channels : {0, 1, 2}, sampleRate : {0, 1, 2},
   bitsPerSample : {8, 12, 16}, payload : Payloads, over : Overdeclared,
   fmtFirst : BOOLEAN]

\* Files that are not of the regular shape.
OddFiles ==
  { << >>,
    << 82, 73, 70 >>,
    TagRIFF \o U32(0),
    << 82, 73, 70, 88 >> \o U32(0) \o TagWAVE \o Fmt(1, 1, 2, 16) \o Chunk(TagData, 2, << 0, 64 >>),
    TagRIFF \o U32(0) \o << 87, 65, 86, 88 >> \o Fmt(1, 1, 2, 16) \o Chunk(TagData, 2, << 0, 64 >>),
    Riff,
    Riff \o Fmt(1, 1, 2, 16),
    Riff \o Chunk(TagData, 2, << 0, 64 >>),
    Riff \o Chunk(TagData, 0, << >>) \o Chunk(TagFmt, 2, U16(2)),
    Riff \o Chunk(TagData, 0, << >>) \o Chunk(TagFmt, 0, << >>),
    Riff \o Chunk(TagData, 2, << 0, 64 >>) \o TagFmt \o << 16, 0 >>,
    Riff \o Chunk(<< 76, 73, 83, 84 >>, 3, << 1, 2, 3, 0 >>) \o Fmt(1, 1, 2, 16)
         \o Chunk(TagData, 2, << 0, 64 >>),
    Riff \o Fmt(1, 1, 2, 24) \o Chunk(TagData, 6, << 0, 0, 64, 0, 0, 192 >>),
    Riff \o Fmt(1, 1, 2, 32) \o Chunk(TagData, 8, << 1, 0, 0, 64, 255, 255, 255, 127 >>),
    Riff \o << 1, 2, 3 >>,
    Riff \o Fmt(1, 1, 2, 16) \o << 100, 97, 116 >> }

\* Files with a second fmt or data chunk, each with the file made of the last
\* chunk of each kind.
Duplicates ==
  { [file |-> Riff \o Fmt(1, 1, 2, 16) \o Chunk(TagData, 2, << 0, 64 >>)
                \o Fmt(1, 1, 1, 16) \o Chunk(TagData, 4, << 0, 32, 0, 192 >>),
     last |-> Riff \o Fmt(1, 1, 1, 16) \o Chunk(TagData, 4, << 0, 32, 0, 192 >>)],
    [file |-> Riff \o Fmt(1, 1, 2, 16) \o Chunk(TagData, 2, << 0, 64 >>)
                \o Chunk(TagData, 4, << 0, 32, 0, 192 >>),
     last |-> Riff \o Fmt(1, 1, 2, 16) \o Chunk(TagData, 4, << 0, 32, 0, 192 >>)],
    [file |-> Riff \o Fmt(1, 2, 2, 8) \o Fmt(1, 1, 1, 16) \o Chunk(TagData, 2, << 0, 64 >>),
     last |-> Riff \o Fmt(1, 1, 1, 16) \o Chunk(TagData, 2, << 0, 64 >>)] }

\* Files with an odd-sized chunk and its pad byte before the fmt or the data
\* chunk, each with the file without that chunk.
Padded ==
  { [file |-> Riff \o Chunk(<< 76, 73, 83, 84 >>, 3, << 1, 2, 3, 0 >>) \o Fmt(1, 1, 2, 16)
                \o Chunk(TagData, 2, << 0, 64 >>),
     plain |-> Riff \o Fmt(1, 1, 2, 16) \o Chunk(TagData, 2, << 0, 64 >>)],
    [file |-> Riff \o Fmt(1, 1, 2, 16) \o Chunk(<< 76, 73, 83, 84 >>, 1, << 7, 0 >>)
                \o Chunk(TagData, 4, << 0, 64, 0, 192 >>),
     plain |-> Riff \o Fmt(1, 1, 2, 16) \o Chunk(TagData, 4, << 0, 64, 0, 192 >>)] }

Buffers ==
  { Wav(f) : f \in WavShapes } \cup OddFiles \cup { d.file : d \in Duplicates }
    \cup { d.file : d \in Padded }

(***************************************************************************)
(* The files behind the locators the trackers are started with.  fetch()   *)
(* of a locator yields its bytes, or fails (a network error).              *)
(***************************************************************************)
Files ==
  << \* 1: mono, 16 bit, 2 Hz, three frames 0.5, -0.5, 0.25
     [kind |-> "bytes",
      buffer |-> Riff \o Fmt(1, 1, 2, 16) \o Chunk(TagData, 6, << 0, 64, 0, 192, 0, 32 >>)],
     \* 2: mono, 16 bit, 1 Hz, one frame 0.25
     [kind |-> "bytes",
      buffer |-> Riff \o Fmt(1, 1, 1, 16) \o Chunk(TagData, 2, << 0, 32 >>)],
     \* 3: the fetch fails
     [kind |-> "neterr", buffer |-> << >>],
     \* 4: not PCM (format code 2)
     [kind |-> "bytes",
      buffer |-> Riff \o Fmt(2, 1, 2, 16) \o Chunk(TagData, 2, << 0, 64 >>)],
     \* 5: the data chunk declares 4 bytes, the buffer ends after 2
     [kind |-> "bytes",
      buffer |-> Riff \o Fmt(1, 1, 2, 16) \o Chunk(TagData, 4, << 0, 64 >>)],
     \* 6: no channels, empty data chunk
     [kind |-> "bytes",
      buffer |-> Riff \o Fmt(1, 0, 2, 16) \o Chunk(TagData, 0, << >>)],
     \* 7: no channels, two bytes of data
     [kind |-> "bytes",
      buffer |-> Riff \o Fmt(1, 0, 2, 16) \o Chunk(TagData, 2, << 0, 64 >>)],
     \* 8: stereo, 8 bit, 2 Hz, one frame
     [kind |-> "bytes",
      buffer |-> Riff \o Fmt(1, 2, 2, 8) \o Chunk(TagData, 2, << 192, 64 >>)],
     \* 9: mono, 16 bit, 2 Hz, two frames of silence
     [kind |-> "bytes",
      buffer |-> Riff \o Fmt(1, 1, 2, 16) \o Chunk(TagData, 4, << 0, 0, 0, 0 >>)],
     \* 10: mono, 32 bit, 2 Hz, two frames: full scale up (1.0 as a float), full scale down
     [kind |-> "bytes",
      buffer |-> Riff \o Fmt(1, 1, 2, 32)
                   \o Chunk(TagData, 8, << 255, 255, 255, 127, 0, 0, 0, 128 >>)],
     \* 11: mono, 16 bit, 2 Hz, an empty data chunk
     [kind |-> "bytes",
      buffer |-> Riff \o Fmt(1, 1, 2, 16) \o Chunk(TagData, 0, << >>)],
     \* 12: mono, 16 bit, 2 Hz, two frames of -1.0 (full scale)
     [kind |-> "bytes",
      buffer |-> Riff \o Fmt(1, 1, 2, 16) \o Chunk(TagData, 4, << 0, 128, 0, 128 >>)] >>

Urls == DOMAIN Files

\* The sound files of the model's motions; NoVoice: a motion without one.
NoVoice == 0
Voices == {NoVoice, 1, 3}

\* The actor ids models are loaded under.
Actors == {"default", "guest"}
\* setMessage's default duration, null; a duration of 0 is as falsy as null.
NoDuration == 0
Durations == NoDuration..MaxDuration
\* The two modules that wrap window.fetch; each has its own installed and
\* originalFetch.
Wrappers == {"cache", "compat"}
\* The urls fetched through the cache.
CacheUrls == {"model", "texture"}
\* Values of setTargetFPS: no limit, one frame per second, the default 60.
Rates == {0, 1, 60}

Fetch(url) == Files[url]

(***************************************************************************)
(* State.                                                                  *)
(*   LAppWavFileHandler: parsed, sampleCursor, timeSeconds, lastRms,       *)
(*     inflight (the id of the promise start() stored, 0 for null), and    *)
(*     promises, the fetch chains that have not settled yet.               *)
(*   AudioAnalyser: _pcmData, _sampleRate, _channelCount, _lastRms,        *)
(*     _sampleOffset, _userTimeSeconds, and loads, the load() calls that   *)
(*     are suspended at an await.                                          *)
(*   hung: the main thread is inside a loop that never ends.               *)
(*   buffer, decoded: the input and the outcome of a direct decode.        *)
(*   engine.ts voice: EnableVoice (the runtime configuration's flag),      *)
(*     currentSource (the id of the playing source node, 0 for null),      *)
(*     unlocks (the unlockVoice().then callbacks not yet run), plays (the  *)
(*     playVoiceFromUrl calls suspended at an await), motionCount (the     *)
(*     motions started so far).                                            *)
(*   Live2DManager: _models (the render list), _modelsMap (actorId to      *)
(*     model, 0 for none), modelLoads (the loadModel calls suspended at    *)
(*     await model.load), released (the models release() was called on),   *)
(*     modelCount (the models constructed so far).  A model is its number. *)
(* History (read by the properties only):                                  *)
(*   call: the operation that produced the current state and what it       *)
(*     reported; value is the loudness the operation leaves or returns,    *)
(*     ok whether a settled decode produced audio.                         *)
(*   handlerHistory, analyserHistory: the id and status of the latest      *)
(*     start, the loudness the latest advance determined, and whether an   *)
(*     advance has consumed samples since the latest start.                *)
(*   stopped: the voice has been stopped by a command that began no new    *)
(*     lip-sync load, and no lip-sync load has begun since.                *)
(***************************************************************************)
VARIABLES parsed, sampleCursor, timeSeconds, lastRms, inflight, promises,
          _pcmData, _sampleRate, _channelCount, _lastRms, _sampleOffset,
          _userTimeSeconds, loads, hung, buffer, decoded, call,
          handlerHistory, analyserHistory,
          EnableVoice, currentSource, unlocks, plays, motionCount, stopped,
          _models, _modelsMap, modelLoads, released, modelCount,
          s_instance, handlers, holds, analysers, avatarLoads, avatarStarts, caller,
          clock, visible, textContent, bottom, timeouts, messageCount, shownUntil,
          _requestId, pending, requestCount, _targetFPS, _lastFrameTime, timestamp,
          framesDrawn, halted,
          backend, eventsInstalled, Canvas, CanvasSize, inDocument, canvasCount,
          backendCount, disposed, listeners, inits, initCount, acted,
          store, content, refreshCache, responses, requests, fetchCount, lastFetched,
          windowFetch, installed, originalFetch, LoadFromCache

handlerVars == << parsed, sampleCursor, timeSeconds, lastRms, inflight, promises,
                  handlerHistory >>
analyserVars == << _pcmData, _sampleRate, _channelCount, _lastRms, _sampleOffset,
                   _userTimeSeconds, loads, analyserHistory >>
decodeVars == << buffer, decoded >>
voiceVars == << EnableVoice, currentSource, unlocks, plays, motionCount, stopped >>
managerVars == << _models, _modelsMap, modelLoads, released, modelCount >>
avatarVars == << s_instance, handlers, holds, analysers, avatarLoads, avatarStarts, caller >>
messageVars == << clock, visible, textContent, bottom, timeouts, messageCount, shownUntil >>
loopVars == << _requestId, pending, requestCount, _targetFPS, _lastFrameTime, timestamp,
              framesDrawn, halted >>
engineVars == << backend, eventsInstalled, Canvas, CanvasSize, inDocument, canvasCount,
                backendCount, disposed, listeners, inits, initCount, acted >>
cacheVars == << store, content, refreshCache, responses, requests, fetchCount,
               lastFetched >>
wrapperVars == << windowFetch, installed, originalFetch, LoadFromCache >>
extraVars == << avatarVars, messageVars, loopVars, engineVars, cacheVars, wrapperVars >>
coreVars == << handlerVars, analyserVars, decodeVars, voiceVars, managerVars, hung >>
notAvatarVars == << coreVars, messageVars, loopVars, engineVars, cacheVars, wrapperVars >>
notMessageVars == << coreVars, avatarVars, loopVars, engineVars, cacheVars, wrapperVars >>
notLoopVars == << coreVars, avatarVars, messageVars, engineVars, cacheVars, wrapperVars >>
notEngineVars == << coreVars, avatarVars, messageVars, loopVars, cacheVars, wrapperVars >>
notCacheVars == << coreVars, avatarVars, messageVars, loopVars, engineVars, wrapperVars >>
notWrapperVars == << coreVars, avatarVars, messageVars, loopVars, engineVars, cacheVars >>
vars == << coreVars, extraVars, call >>

NoCall ==
  [op |-> "none", by |-> "none", id |-> 0, stale |-> FALSE, ok |-> FALSE, threw |-> FALSE,
   value |-> 0]
NoHistory == [id |-> 0, status |-> "none", determined |-> 0, consumed |-> FALSE]
NotDecoded == [by |-> "none", ret |-> "none", audio |-> Null]

\* The fields of a new LAppWavFileHandler.
HandlerInit ==
  /\ parsed = Null
  /\ sampleCursor = 0
  /\ timeSeconds = 0
  /\ lastRms = 0
  /\ inflight = 0
  /\ promises = {}
  /\ handlerHistory = NoHistory

\* The fields of a new AudioAnalyser.
AnalyserInit ==
  /\ _pcmData = Null
  /\ _sampleRate = 44100
  /\ _channelCount = 1
  /\ _lastRms = 0
  /\ _sampleOffset = 0
  /\ _userTimeSeconds = 0
  /\ loads = {}
  /\ analyserHistory = NoHistory

\* engine.ts' module state and the runtime configuration's default.
VoiceInit ==
  /\ EnableVoice = FALSE
  /\ currentSource = 0
  /\ unlocks = {}
  /\ plays = {}
  /\ motionCount = 0
  /\ stopped = FALSE

\* The fields of a new Live2DManager.
ManagerInit ==
  /\ _models = << >>
  /\ _modelsMap = [a \in Actors |-> 0]
  /\ modelLoads = {}
  /\ released = {}
  /\ modelCount = 0

\* The fields of a new LAppWavFileHandler, as one object.
NewHandler == [parsed |-> Null, sampleCursor |-> 0, timeSeconds |-> 0, lastRms |-> 0]

\* The fields of a new AudioAnalyser, as one object.
NewAnalyserObject ==
  [pcmData |-> Null, sampleRate |-> 44100, channelCount |-> 1, lastRms |-> 0,
   sampleOffset |-> 0, userTimeSeconds |-> 0]

\* Two avatars: s_instance is null, each Live2DModel has constructed its analyser.
AvatarInit ==
  /\ s_instance = 0
  /\ handlers = << >>
  /\ holds = [a \in Actors |-> 0]
  /\ analysers = [a \in Actors |-> NewAnalyserObject]
  /\ avatarLoads = {}
  /\ avatarStarts = 0
  /\ caller = "none"

\* The message box after initialize(canvas): created and hidden, no timer set.
MessageInit ==
  /\ clock = 0
  /\ visible = FALSE
  /\ textContent = 0
  /\ bottom = "initial"
  /\ timeouts = {}
  /\ messageCount = 0
  /\ shownUntil = NoDuration

\* The render loop's fields of a new Live2DManager; no frame is requested.
LoopInit ==
  /\ _requestId = 0
  /\ pending = {}
  /\ requestCount = 0
  /\ _targetFPS = 60
  /\ _lastFrameTime = 0
  /\ timestamp = 0
  /\ framesDrawn = 0
  /\ halted = FALSE

\* engine.ts' module state and the runtime configuration's defaults; the
\* document holds no canvas and no listener has been added.
EngineInit ==
  /\ backend = 0
  /\ eventsInstalled = FALSE
  /\ Canvas = 0
  /\ CanvasSize = "auto"
  /\ inDocument = << >>
  /\ canvasCount = 0
  /\ backendCount = 0
  /\ disposed = {}
  /\ listeners = << >>
  /\ inits = {}
  /\ initCount = 0
  /\ acted = << >>

\* The cache with LoadFromCache set and Live2dDB open on a new object store;
\* refreshCache is false and every url has its first content on the network.
CacheInit ==
  /\ store = << >>
  /\ content = [url \in CacheUrls |-> 1]
  /\ refreshCache = FALSE
  /\ responses = {}
  /\ requests = << >>
  /\ fetchCount = 0
  /\ lastFetched = [url \in CacheUrls |-> 0]

\* window.fetch is the browser's own; neither wrapper module has installed.
WrapperInit ==
  /\ windowFetch = "native"
  /\ installed = [w \in Wrappers |-> FALSE]
  /\ originalFetch = [w \in Wrappers |-> "null"]
  /\ LoadFromCache = FALSE

ExtraInit ==
  /\ AvatarInit
  /\ MessageInit
  /\ LoopInit
  /\ EngineInit
  /\ CacheInit
  /\ WrapperInit

Init ==
  /\ HandlerInit
  /\ AnalyserInit
  /\ VoiceInit
  /\ ManagerInit
  /\ ExtraInit
  /\ hung = FALSE
  /\ buffer = << >>
  /\ decoded = NotDecoded
  /\ call = NoCall

(***************************************************************************)
(* LAppWavFileHandler.                                                     *)
(***************************************************************************)
RECURSIVE SumRange(_, _, _)
\* for (i = from; i < target; i++) sum += data[i] * data[i]
SumRange(data, from, target) ==
  IF from >= target THEN 0
  ELSE Square(data[from + 1]) + SumRange(data, from + 1, target)

RECURSIVE SumChannels(_, _, _, _, _)
\* for (ch = ch0; ch < channels; ch++) over pcm[ch]
SumChannels(pcm, ch, channels, from, target) ==
  IF ch >= channels THEN 0
  ELSE SumRange(pcm[ch + 1], from, target) + SumChannels(pcm, ch + 1, channels, from, target)

\* Math.floor(seconds * sampleRate), seconds counted in ticks.
SampleAt(ticks, sampleRate) == (ticks * sampleRate) \div TicksPerSecond

HandlerStart(url) ==
  LET id == handlerHistory.id + 1
  IN  /\ ~hung
      /\ id <= MaxStarts
      /\ sampleCursor' = 0
      /\ timeSeconds' = 0
      /\ lastRms' = 0
      /\ parsed' = Null
      /\ inflight' = id
      /\ promises' = promises \cup {[id |-> id, url |-> url]}
      /\ handlerHistory' = [handlerHistory EXCEPT !.id = id, !.status = "pending",
                                                  !.consumed = FALSE]
      /\ call' = [NoCall EXCEPT !.op = "start", !.by = "handler", !.id = id]
      /\ UNCHANGED << extraVars, analyserVars, decodeVars, hung, voiceVars, managerVars >>

\* The chain fetch().then(arrayBuffer).then(parse).catch().finally() of one start.
HandlerSettle(p) ==
  LET r == Fetch(p.url)
      q == parseWav(r.buffer)
      \* a rejected fetch and a throwing parseWav both end in the catch handler
      result == IF r.kind = "neterr" \/ q.kind = "throw" THEN Null ELSE q
  IN  /\ ~hung
      /\ p \in promises
      /\ parsed' = result
      /\ inflight' = 0
      /\ promises' = promises \ {p}
      /\ handlerHistory' =
           IF p.id = handlerHistory.id
           THEN [handlerHistory EXCEPT !.status = IF result.kind = "ok" THEN "ok" ELSE "failed"]
           ELSE handlerHistory
      /\ call' = [NoCall EXCEPT !.op = "settle", !.by = "handler", !.id = p.id,
                                !.stale = (p.id # handlerHistory.id),
                                !.ok = (result.kind = "ok")]
      /\ UNCHANGED << extraVars, sampleCursor, timeSeconds, lastRms, analyserVars, decodeVars, hung, voiceVars, managerVars >>

HandlerUpdate(deltaTimeSeconds) ==
  /\ ~hung
  /\ timeSeconds + deltaTimeSeconds <= MaxTime
  /\ IF parsed.kind # "ok" \/ Len(parsed.wav.pcm[1]) = 0
     THEN /\ lastRms' = 0
          /\ UNCHANGED << timeSeconds, sampleCursor >>
     ELSE LET wav == parsed.wav
              frames == Len(wav.pcm[1])
              time == timeSeconds + deltaTimeSeconds
              target == Min(frames, SampleAt(time, wav.sampleRate))
          IN  /\ timeSeconds' = time
              /\ IF target <= sampleCursor
                 THEN /\ lastRms' = 0
                      /\ UNCHANGED sampleCursor
                 ELSE LET sum == SumChannels(wav.pcm, 0, wav.channels, sampleCursor, target)
                          count == wav.channels * (target - sampleCursor)
                      IN  /\ sampleCursor' = target
                          /\ lastRms' = IF count # 0 THEN Sqrt(sum, count) ELSE 0
  /\ handlerHistory' = [handlerHistory EXCEPT
                          !.determined = lastRms',
                          !.consumed = @ \/ (sampleCursor' # sampleCursor)]
  /\ call' = [NoCall EXCEPT !.op = "update", !.by = "handler", !.value = lastRms']
  /\ UNCHANGED << extraVars, parsed, inflight, promises, analyserVars, decodeVars, hung, voiceVars, managerVars >>

HandlerGetRms ==
  /\ ~hung
  /\ call' = [NoCall EXCEPT !.op = "getRms", !.by = "handler", !.value = lastRms]
  /\ UNCHANGED << extraVars, handlerVars, analyserVars, decodeVars, hung, voiceVars, managerVars >>

NextHandler ==
  \/ \E url \in Urls : HandlerStart(url)
  \/ \E p \in promises : HandlerSettle(p)
  \/ \E dt \in 0..MaxDelta : HandlerUpdate(dt)
  \/ HandlerGetRms

SpecHandler == Init /\ [][NextHandler]_vars

(***************************************************************************)
(* AudioAnalyser, as Live2DModel drives it: _startMotionImpl calls         *)
(* load(url) and drops the promise, update() calls update(dt) every frame. *)
(***************************************************************************)
\* The analyser's fields as a record, and back.
This ==
  [pcmData |-> _pcmData, sampleRate |-> _sampleRate, channelCount |-> _channelCount,
   lastRms |-> _lastRms, sampleOffset |-> _sampleOffset,
   userTimeSeconds |-> _userTimeSeconds]

Becomes(this) ==
  /\ _pcmData' = this.pcmData
  /\ _sampleRate' = this.sampleRate
  /\ _channelCount' = this.channelCount
  /\ _lastRms' = this.lastRms
  /\ _sampleOffset' = this.sampleOffset
  /\ _userTimeSeconds' = this.userTimeSeconds

\* load(path) up to its first await: the fetch is issued, no field is written.
AnalyserLoad(url) ==
  LET id == analyserHistory.id + 1
  IN  /\ ~hung
      /\ id <= MaxStarts
      /\ loads' = loads \cup {[id |-> id, url |-> url]}
      /\ analyserHistory' = [analyserHistory EXCEPT !.id = id, !.status = "pending",
                                                    !.consumed = FALSE]
      /\ call' = [NoCall EXCEPT !.op = "start", !.by = "analyser", !.id = id]
      /\ UNCHANGED << extraVars, _pcmData, _sampleRate, _channelCount, _lastRms, _sampleOffset,
                      _userTimeSeconds, handlerVars, decodeVars, hung,
                      voiceVars, managerVars >>

\* load(path) from the awaited fetch to its return; the try/catch takes every throw.
AnalyserSettle(p) ==
  LET r == Fetch(p.url)
      out == IF r.kind = "neterr" THEN [ret |-> "throw", this |-> This]
             ELSE AudioAnalyser_parseWav(r.buffer, This)
  IN  /\ ~hung
      /\ p \in loads
      /\ Becomes(out.this)
      /\ hung' = (out.ret = "hang")
      /\ loads' = loads \ {p}
      /\ analyserHistory' =
           IF p.id = analyserHistory.id
           THEN [analyserHistory EXCEPT !.status = IF out.ret = "true" THEN "ok" ELSE "failed"]
           ELSE analyserHistory
      /\ call' = [NoCall EXCEPT !.op = "settle", !.by = "analyser", !.id = p.id,
                                !.stale = (p.id # analyserHistory.id),
                                !.ok = (out.ret = "true")]
      /\ UNCHANGED << extraVars, handlerVars, decodeVars, voiceVars, managerVars >>

\* What update(dt) does to the fields and what it returns; threw: a TypeError.
AnalyserUpdateOutcome(this, deltaTimeSeconds) ==
  IF this.pcmData.kind # "ok" THEN [threw |-> FALSE, ret |-> 0, this |-> this]
  ELSE
    LET pcm == this.pcmData.pcm
        t1 == [this EXCEPT !.userTimeSeconds = @ + deltaTimeSeconds]
    IN  IF Len(pcm) = 0
        THEN \* this._pcmData[0].length of an empty array
             [threw |-> TRUE, ret |-> 0, this |-> t1]
        ELSE
          LET maxOffset == Len(pcm[1])
              goal == SampleAt(t1.userTimeSeconds, t1.sampleRate)
              goalOffset == IF goal > maxOffset THEN maxOffset ELSE goal
          IN  IF t1.sampleOffset >= goalOffset
              THEN [threw |-> FALSE, ret |-> t1.lastRms, this |-> t1]
              ELSE IF t1.channelCount > Len(pcm)
              THEN \* channelData is undefined for c >= _pcmData.length
                   [threw |-> TRUE, ret |-> 0, this |-> t1]
              ELSE
                LET sumSquared == SumChannels(pcm, 0, t1.channelCount, t1.sampleOffset, goalOffset)
                    sampleCount == t1.channelCount * (goalOffset - t1.sampleOffset)
                    rms == IF sampleCount > 0 THEN Sqrt(sumSquared, sampleCount) ELSE 0
                IN  [threw |-> FALSE, ret |-> rms,
                     this |-> [t1 EXCEPT !.sampleOffset = goalOffset, !.lastRms = rms]]

AnalyserUpdate(deltaTimeSeconds) ==
  LET out == AnalyserUpdateOutcome(This, deltaTimeSeconds)
  IN  /\ ~hung
      /\ _userTimeSeconds + deltaTimeSeconds <= MaxTime
      /\ Becomes(out.this)
      /\ analyserHistory' = [analyserHistory EXCEPT
                               !.determined = IF out.threw THEN @ ELSE out.ret,
                               !.consumed = @ \/ (out.this.sampleOffset # _sampleOffset)]
      /\ call' = [NoCall EXCEPT !.op = "update", !.by = "analyser", !.threw = out.threw,
                                !.value = out.ret]
      /\ UNCHANGED << extraVars, loads, handlerVars, decodeVars, hung, voiceVars, managerVars >>

AnalyserGetRms ==
  /\ ~hung
  /\ call' = [NoCall EXCEPT !.op = "getRms", !.by = "analyser", !.value = _lastRms]
  /\ UNCHANGED << extraVars, analyserVars, handlerVars, decodeVars, hung, voiceVars, managerVars >>

NextAnalyser ==
  \/ \E url \in Urls : AnalyserLoad(url)
  \/ \E p \in loads : AnalyserSettle(p)
  \/ \E dt \in 0..MaxDelta : AnalyserUpdate(dt)
  \/ AnalyserGetRms

SpecAnalyser == Init /\ [][NextAnalyser]_vars

(***************************************************************************)
(* The two decoders applied to one buffer: parseWav, and parseWav of a new *)
(* AudioAnalyser.                                                          *)
(***************************************************************************)
InitDecode ==
  /\ HandlerInit
  /\ AnalyserInit
  /\ VoiceInit
  /\ ManagerInit
  /\ ExtraInit
  /\ hung = FALSE
  /\ buffer \in Buffers
  /\ decoded = NotDecoded
  /\ call = NoCall

DecodeHandler ==
  LET q == parseWav(buffer)
  IN  /\ decoded.by = "none"
      /\ decoded' = [by |-> "handler", ret |-> q.kind,
                     audio |-> IF q.kind = "ok" THEN q ELSE Null]
      /\ call' = [NoCall EXCEPT !.op = "decode", !.by = "handler",
                                !.threw = (q.kind = "throw")]
      /\ UNCHANGED << extraVars, buffer, handlerVars, analyserVars, hung, voiceVars, managerVars >>

DecodeAnalyser ==
  LET out == AudioAnalyser_parseWav(buffer, This)
  IN  /\ decoded.by = "none"
      /\ Becomes(out.this)
      /\ hung' = (out.ret = "hang")
      /\ decoded' = [by |-> "analyser", ret |-> out.ret,
                     audio |-> IF out.this.pcmData.kind # "ok" THEN Null
                               ELSE [kind |-> "ok",
                                     wav |-> [sampleRate |-> out.this.sampleRate,
                                              channels |-> out.this.channelCount,
                                              pcm |-> out.this.pcmData.pcm]]]
      /\ call' = [NoCall EXCEPT !.op = "decode", !.by = "analyser",
                                !.threw = (out.ret = "throw")]
      /\ UNCHANGED << extraVars, buffer, loads, analyserHistory, handlerVars, voiceVars, managerVars >>

NextDecode == DecodeHandler \/ DecodeAnalyser

SpecDecode == InitDecode /\ [][NextDecode]_vars

(***************************************************************************)
(* Live2DModel and the voice functions of engine.ts.  A motion's sound     *)
(* file is played through playVoiceFromUrl and, for the lip-sync, loaded   *)
(* into the model's AudioAnalyser; Live2DModel.update feeds the value of   *)
(* AudioAnalyser.update into the lip-sync parameters every frame.          *)
(***************************************************************************)
\* _startMotionImpl(motion, group, no, ...); voice is getMotionSoundFileName(group, no).
_startMotionImpl(voice) ==
  LET id == motionCount + 1
      speaks == voice # NoVoice /\ EnableVoice
  IN  /\ ~hung
      /\ id <= MaxStarts
      /\ motionCount' = id
      \* stopVoice()
      /\ currentSource' = 0
      \* unlockVoice().then(...)
      /\ unlocks' = IF speaks THEN unlocks \cup {[id |-> id, url |-> voice]} ELSE unlocks
      /\ stopped' = ~speaks
      /\ call' = [NoCall EXCEPT !.op = "startMotion", !.by = "model", !.id = id]
      /\ UNCHANGED << extraVars, EnableVoice, plays, handlerVars, analyserVars, decodeVars,
                      managerVars, hung >>

\* The callback of unlockVoice().then: playVoiceFromUrl(url) up to its fetch,
\* and this._audioAnalyser.load(url) up to its fetch.
unlockVoiceThen(u) ==
  LET id == analyserHistory.id + 1
  IN  /\ ~hung
      /\ u \in unlocks
      /\ unlocks' = unlocks \ {u}
      \* playVoiceFromUrl: if (!isVoiceEnabled()) return false
      /\ plays' = IF EnableVoice THEN plays \cup {u} ELSE plays
      /\ loads' = loads \cup {[id |-> id, url |-> u.url]}
      /\ analyserHistory' = [analyserHistory EXCEPT !.id = id, !.status = "pending",
                                                    !.consumed = FALSE]
      /\ stopped' = FALSE
      /\ call' = [NoCall EXCEPT !.op = "start", !.by = "analyser", !.id = id]
      /\ UNCHANGED << extraVars, _pcmData, _sampleRate, _channelCount, _lastRms, _sampleOffset,
                      _userTimeSeconds, EnableVoice, currentSource, motionCount,
                      handlerVars, decodeVars, managerVars, hung >>

\* playVoiceFromUrl(url) from the awaited fetch to its return.
playVoiceFromUrl(p) ==
  /\ ~hung
  /\ p \in plays
  /\ plays' = plays \ {p}
  \* a rejected fetch ends the call; otherwise stopVoice(), currentSource = source
  /\ currentSource' = IF Fetch(p.url).kind = "neterr" THEN currentSource ELSE p.id
  /\ call' = [NoCall EXCEPT !.op = "play", !.by = "engine", !.id = p.id]
  /\ UNCHANGED << extraVars, EnableVoice, unlocks, motionCount, stopped, handlerVars, analyserVars,
                  decodeVars, managerVars, hung >>

\* source.onended
onended ==
  /\ ~hung
  /\ currentSource # 0
  /\ currentSource' = 0
  /\ call' = [NoCall EXCEPT !.op = "ended", !.by = "engine", !.id = currentSource]
  /\ UNCHANGED << extraVars, EnableVoice, unlocks, plays, motionCount, stopped, handlerVars,
                  analyserVars, decodeVars, managerVars, hung >>

setVoiceEnabled(enabled) ==
  /\ ~hung
  /\ EnableVoice' = enabled
  \* if (!getRuntimeConfig().EnableVoice) stopVoice()
  /\ currentSource' = IF enabled THEN currentSource ELSE 0
  /\ stopped' = IF enabled THEN stopped ELSE TRUE
  /\ call' = [NoCall EXCEPT !.op = "setVoiceEnabled", !.by = "engine", !.ok = enabled]
  /\ UNCHANGED << extraVars, unlocks, plays, motionCount, handlerVars, analyserVars, decodeVars,
                  managerVars, hung >>

NextVoice ==
  \/ \E voice \in Voices : _startMotionImpl(voice)
  \/ \E u \in unlocks : unlockVoiceThen(u)
  \/ \E p \in plays : playVoiceFromUrl(p)
  \/ onended
  \/ \E enabled \in BOOLEAN : setVoiceEnabled(enabled)
  \/ \E p \in loads : AnalyserSettle(p)
  \/ \E dt \in 0..MaxDelta : AnalyserUpdate(dt)

SpecVoice == Init /\ [][NextVoice]_vars

(***************************************************************************)
(* Live2DManager: loadModel and removeModel.                               *)
(***************************************************************************)
\* removeModel(actorId): the render list, the map and the released models after it.
Removed(actorId) ==
  LET model == _modelsMap[actorId]
  IN  IF model # 0
      THEN [models |-> SelectSeq(_models, LAMBDA m : m # model),
            map |-> [_modelsMap EXCEPT ![actorId] = 0],
            released |-> released \cup {model}]
      ELSE [models |-> _models, map |-> _modelsMap, released |-> released]

\* loadModel(actorId, dir, fileName) up to await model.load(dir, fileName).
loadModel(actorId) ==
  LET model == modelCount + 1
      r == Removed(actorId)
  IN  /\ model <= MaxModels
      /\ modelCount' = model
      /\ _models' = r.models
      /\ _modelsMap' = r.map
      /\ released' = r.released
      /\ modelLoads' = modelLoads \cup {[actorId |-> actorId, model |-> model]}
      \* value: the model registered for the actor when the call was made
      /\ call' = [NoCall EXCEPT !.op = "loadModel", !.by = "manager", !.id = model,
                                !.value = _modelsMap[actorId]]
      /\ UNCHANGED << extraVars, handlerVars, analyserVars, decodeVars, voiceVars, hung >>

\* loadModel from the awaited model.load to its return; loaded: the promise
\* was fulfilled, otherwise the catch returns null.
loadModelSettle(l, loaded) ==
  /\ l \in modelLoads
  /\ modelLoads' = modelLoads \ {l}
  /\ _models' = IF loaded THEN Append(_models, l.model) ELSE _models
  /\ _modelsMap' = IF loaded THEN [_modelsMap EXCEPT ![l.actorId] = l.model] ELSE _modelsMap
  /\ call' = [NoCall EXCEPT !.op = "loadModelSettle", !.by = "manager", !.id = l.model,
                            !.ok = loaded]
  /\ UNCHANGED << extraVars, released, modelCount, handlerVars, analyserVars, decodeVars, voiceVars,
                  hung >>

removeModel(actorId) ==
  LET r == Removed(actorId)
  IN  /\ _models' = r.models
      /\ _modelsMap' = r.map
      /\ released' = r.released
      /\ call' = [NoCall EXCEPT !.op = "removeModel", !.by = "manager",
                                !.id = _modelsMap[actorId]]
      /\ UNCHANGED << extraVars, modelLoads, modelCount, handlerVars, analyserVars, decodeVars,
                      voiceVars, hung >>

NextManager ==
  \/ \E actorId \in Actors : loadModel(actorId)
  \/ \E l \in modelLoads, loaded \in BOOLEAN : loadModelSettle(l, loaded)
  \/ \E actorId \in Actors : removeModel(actorId)

SpecManager == Init /\ [][NextManager]_vars

(***************************************************************************)
(* Two avatars and their trackers: LAppWavFileHandler.getInstance() and    *)
(* the AudioAnalyser each Live2DModel constructs.                          *)
(***************************************************************************)
\* static getInstance(), called by an avatar that keeps the result.
getInstance(a) ==
  /\ IF s_instance = 0
     THEN /\ Len(handlers) < MaxHandlers
          /\ handlers' = Append(handlers, NewHandler)
          /\ s_instance' = Len(handlers) + 1
     ELSE UNCHANGED << handlers, s_instance >>
  /\ holds' = [holds EXCEPT ![a] = s_instance']
  /\ caller' = a
  /\ call' = [NoCall EXCEPT !.op = "getInstance", !.by = "handler", !.id = s_instance']
  /\ UNCHANGED << analysers, avatarLoads, avatarStarts, notAvatarVars >>

\* static releaseInstance()
releaseInstance ==
  /\ s_instance # 0
  /\ s_instance' = 0
  /\ caller' = "none"
  /\ call' = [NoCall EXCEPT !.op = "releaseInstance", !.by = "handler"]
  /\ UNCHANGED << handlers, holds, analysers, avatarLoads, avatarStarts, notAvatarVars >>

\* start(filePath) on the handler the avatar holds.
AvatarStart(a, url) ==
  LET h == holds[a]
  IN  /\ h # 0
      /\ avatarStarts < MaxStarts
      /\ avatarStarts' = avatarStarts + 1
      /\ handlers' = [handlers EXCEPT ![h] = NewHandler]
      /\ avatarLoads' = avatarLoads \cup {[by |-> "handler", object |-> h, url |-> url]}
      /\ caller' = a
      /\ call' = [NoCall EXCEPT !.op = "start", !.by = "handler", !.id = h]
      /\ UNCHANGED << s_instance, holds, analysers, notAvatarVars >>

\* What update(dt) does to the fields of a handler.
HandlerUpdateOutcome(this, deltaTimeSeconds) ==
  IF this.parsed.kind # "ok" \/ Len(this.parsed.wav.pcm[1]) = 0
  THEN [this EXCEPT !.lastRms = 0]
  ELSE LET wav == this.parsed.wav
           frames == Len(wav.pcm[1])
           time == this.timeSeconds + deltaTimeSeconds
           target == Min(frames, SampleAt(time, wav.sampleRate))
       IN  IF target <= this.sampleCursor
           THEN [this EXCEPT !.timeSeconds = time, !.lastRms = 0]
           ELSE LET sum == SumChannels(wav.pcm, 0, wav.channels, this.sampleCursor, target)
                    count == wav.channels * (target - this.sampleCursor)
                IN  [this EXCEPT !.timeSeconds = time, !.sampleCursor = target,
                                 !.lastRms = IF count # 0 THEN Sqrt(sum, count) ELSE 0]

\* update(dt) on the handler the avatar holds.
AvatarUpdate(a, deltaTimeSeconds) ==
  LET h == holds[a]
  IN  /\ h # 0
      /\ handlers[h].timeSeconds + deltaTimeSeconds <= MaxTime
      /\ handlers' = [handlers EXCEPT ![h] = HandlerUpdateOutcome(@, deltaTimeSeconds)]
      /\ caller' = a
      /\ call' = [NoCall EXCEPT !.op = "update", !.by = "handler", !.id = h,
                                !.value = handlers'[h].lastRms]
      /\ UNCHANGED << s_instance, holds, analysers, avatarLoads, avatarStarts, notAvatarVars >>

\* this._audioAnalyser.load(url) of the avatar's model, up to its first await.
ModelLoad(a, url) ==
  /\ avatarStarts < MaxStarts
  /\ avatarStarts' = avatarStarts + 1
  /\ avatarLoads' = avatarLoads \cup {[by |-> "analyser", object |-> a, url |-> url]}
  /\ caller' = a
  /\ call' = [NoCall EXCEPT !.op = "start", !.by = "analyser"]
  /\ UNCHANGED << s_instance, handlers, holds, analysers, notAvatarVars >>

\* this._audioAnalyser.update(deltaTimeSeconds) of the avatar's model.
ModelUpdate(a, deltaTimeSeconds) ==
  LET out == AnalyserUpdateOutcome(analysers[a], deltaTimeSeconds)
  IN  /\ analysers[a].userTimeSeconds + deltaTimeSeconds <= MaxTime
      /\ analysers' = [analysers EXCEPT ![a] = out.this]
      /\ caller' = a
      /\ call' = [NoCall EXCEPT !.op = "update", !.by = "analyser", !.threw = out.threw,
                                !.value = out.ret]
      /\ UNCHANGED << s_instance, handlers, holds, avatarLoads, avatarStarts, notAvatarVars >>

\* The promise chain of one start, or one load from its awaited fetch on.
AvatarSettle(p) ==
  LET r == Fetch(p.url)
  IN  /\ p \in avatarLoads
      /\ avatarLoads' = avatarLoads \ {p}
      /\ IF p.by = "handler"
         THEN LET q == parseWav(r.buffer)
                  result == IF r.kind = "neterr" \/ q.kind = "throw" THEN Null ELSE q
              IN  /\ handlers' = [handlers EXCEPT ![p.object].parsed = result]
                  /\ UNCHANGED analysers
         ELSE LET this == analysers[p.object]
                  out == IF r.kind = "neterr" THEN [ret |-> "throw", this |-> this]
                         ELSE AudioAnalyser_parseWav(r.buffer, this)
              IN  /\ analysers' = [analysers EXCEPT ![p.object] = out.this]
                  /\ UNCHANGED handlers
      /\ caller' = "none"
      /\ call' = [NoCall EXCEPT !.op = "settle", !.by = p.by]
      /\ UNCHANGED << s_instance, holds, avatarStarts, notAvatarVars >>

NextAvatars ==
  \/ \E a \in Actors : getInstance(a)
  \/ releaseInstance
  \/ \E a \in Actors, url \in Voices \ {NoVoice} : AvatarStart(a, url)
  \/ \E a \in Actors, dt \in 0..MaxDelta : AvatarUpdate(a, dt)
  \/ \E a \in Actors, url \in Voices \ {NoVoice} : ModelLoad(a, url)
  \/ \E a \in Actors, dt \in 0..MaxDelta : ModelUpdate(a, dt)
  \/ \E p \in avatarLoads : AvatarSettle(p)

SpecAvatars == Init /\ [][NextAvatars]_vars

(***************************************************************************)
(* LAppMessageBox: setMessage and the timers it sets.                      *)
(***************************************************************************)
\* setMessage(message, duration): hide, set the text, set the 10 ms layout
\* timer, reveal, and set the hide timer if (duration).
setMessage(duration) ==
  LET message == messageCount + 1
  IN  /\ message <= MaxMessages
      /\ messageCount' = message
      /\ textContent' = message
      /\ visible' = TRUE
      /\ timeouts' = timeouts \cup {[kind |-> "layout", message |-> message, due |-> clock]}
                              \cup (IF duration # NoDuration
                                    THEN {[kind |-> "hide", message |-> message,
                                           due |-> clock + duration]}
                                    ELSE {})
      /\ shownUntil' = IF duration # NoDuration THEN clock + duration ELSE NoDuration
      /\ call' = [NoCall EXCEPT !.op = "setMessage", !.by = "messagebox", !.id = message,
                                !.value = duration]
      /\ UNCHANGED << clock, bottom, notMessageVars >>

\* A timer whose time has come runs its callback: the layout of the wrapper,
\* or hideMessageBox().
Timeout(t) ==
  /\ t \in timeouts
  /\ t.due <= clock
  /\ timeouts' = timeouts \ {t}
  /\ visible' = IF t.kind = "hide" THEN FALSE ELSE visible
  /\ bottom' = IF t.kind = "layout" THEN "fitted" ELSE bottom
  /\ call' = [NoCall EXCEPT !.op = t.kind, !.by = "messagebox", !.id = t.message]
  /\ UNCHANGED << clock, textContent, messageCount, shownUntil, notMessageVars >>

\* Time passes by one unit.
Tick ==
  /\ clock < MaxClock
  /\ clock' = clock + 1
  /\ call' = [NoCall EXCEPT !.op = "tick", !.by = "messagebox"]
  /\ UNCHANGED << visible, textContent, bottom, timeouts, messageCount, shownUntil,
                  notMessageVars >>

NextMessage ==
  \/ \E duration \in Durations : setMessage(duration)
  \/ \E t \in timeouts : Timeout(t)
  \/ Tick

SpecMessage == Init /\ [][NextMessage]_vars

(***************************************************************************)
(* Live2DManager's render loop: start, stop and _loop.                     *)
(***************************************************************************)
\* cancelAnimationFrame(id): the requests still pending afterwards.
cancelNothing(id) == pending

cancelAnimationFrame(id) == pending \ {id}

\* elapsed < 1000 / _targetFPS, with elapsed in ticks.
TooEarly(elapsed) == _targetFPS > 0 /\ elapsed * _targetFPS < TicksPerSecond

\* elapsed % interval, in ticks; the rates of Rates make the interval a whole
\* number of ticks or a whole fraction of one.
Remainder(elapsed) ==
  IF TicksPerSecond % _targetFPS = 0 THEN elapsed % (TicksPerSecond \div _targetFPS) ELSE 0

\* _loop(timestamp) with the requests in waiting pending when it is entered:
\* the next frame is requested first, then the FPS limit may return, then
\* update() and draw() run.
_loop(waiting) ==
  LET id == requestCount + 1
      elapsed == timestamp - _lastFrameTime
  IN  /\ id <= MaxRequests
      /\ requestCount' = id
      /\ _requestId' = id
      /\ pending' = waiting \cup {id}
      /\ IF TooEarly(elapsed)
         THEN UNCHANGED << _lastFrameTime, framesDrawn >>
         ELSE /\ _lastFrameTime' = IF _targetFPS > 0 THEN timestamp - Remainder(elapsed)
                                   ELSE _lastFrameTime
              /\ framesDrawn' = framesDrawn + 1

\* start()
start ==
  /\ IF _requestId = 0 THEN _loop(pending)
     ELSE UNCHANGED << _requestId, pending, requestCount, _lastFrameTime, framesDrawn >>
  /\ halted' = FALSE
  /\ call' = [NoCall EXCEPT !.op = "start", !.by = "loop", !.id = _requestId']
  /\ UNCHANGED << _targetFPS, timestamp, notLoopVars >>

\* stop()
stop ==
  /\ IF _requestId # 0
     THEN /\ pending' = cancelAnimationFrame(_requestId)
          /\ _requestId' = 0
     ELSE UNCHANGED << _requestId, pending >>
  /\ halted' = TRUE
  /\ call' = [NoCall EXCEPT !.op = "stop", !.by = "loop", !.id = _requestId]
  /\ UNCHANGED << requestCount, _targetFPS, _lastFrameTime, timestamp, framesDrawn, notLoopVars >>

\* The browser runs the callback of a pending animation-frame request.
AnimationFrame(r) ==
  /\ r \in pending
  /\ _loop(pending \ {r})
  /\ call' = [NoCall EXCEPT !.op = "frame", !.by = "loop", !.id = r]
  /\ UNCHANGED << _targetFPS, timestamp, halted, notLoopVars >>

setTargetFPS(fps) ==
  /\ _targetFPS' = fps
  /\ call' = [NoCall EXCEPT !.op = "setTargetFPS", !.by = "loop", !.value = fps]
  /\ UNCHANGED << _requestId, pending, requestCount, _lastFrameTime, timestamp, framesDrawn,
                  halted, notLoopVars >>

\* performance.now() moves on by one tick.
TimePasses ==
  /\ timestamp < MaxTime
  /\ timestamp' = timestamp + 1
  /\ call' = [NoCall EXCEPT !.op = "tick", !.by = "loop"]
  /\ UNCHANGED << _requestId, pending, requestCount, _targetFPS, _lastFrameTime, framesDrawn,
                  halted, notLoopVars >>

NextLoop ==
  \/ start
  \/ stop
  \/ \E r \in pending : AnimationFrame(r)
  \/ \E fps \in Rates : setTargetFPS(fps)
  \/ TimePasses

SpecLoop == Init /\ [][NextLoop]_vars

(***************************************************************************)
(* engine.ts: initializeLive2D, destroyLive2D and the listeners that       *)
(* installEvents adds.  Canvases and backends are numbered from 1; 0 is    *)
(* null or undefined.                                                      *)
(***************************************************************************)
\* The configurations a host passes: its own canvas or none, a size or none.
Configs ==
  [Canvas : 0..MaxInits, CanvasSize : {"undefined", "auto", "fixed"}]

InDocument(canvas) == \E i \in DOMAIN inDocument : inDocument[i] = canvas

\* initializeLive2D(config) up to its first await.
initializeLive2D(config) ==
  LET id == initCount + 1
  IN  /\ id <= MaxInits
      /\ config.Canvas <= canvasCount
      /\ initCount' = id
      /\ Canvas' = IF config.Canvas # 0 THEN config.Canvas ELSE Canvas
      /\ CanvasSize' = IF config.CanvasSize # "undefined" THEN config.CanvasSize
                       ELSE CanvasSize
      /\ inits' = inits \cup {[id |-> id, config |-> config]}
      /\ acted' = << >>
      /\ call' = [NoCall EXCEPT !.op = "initializeLive2D", !.by = "engine", !.id = id]
      /\ UNCHANGED << backend, eventsInstalled, inDocument, canvasCount, backendCount,
                      disposed, listeners, notEngineVars >>

\* The listeners installEvents(canvas, backend) adds: the three pointer
\* listeners on the canvas, taken as one, and the resize listener on window.
Installed(canvas, b) ==
  << [target |-> canvas, type |-> "pointer", backend |-> b],
     [target |-> 0, type |-> "resize", backend |-> b] >>

\* initializeLive2D from ensureCanvas(config) to the creation of the backend.
initializeContinue(i) ==
  LET existing == IF Len(inDocument) > 0 THEN inDocument[1] ELSE 0
      created == i.config.Canvas = 0 /\ existing = 0
      canvas == IF i.config.Canvas # 0 THEN i.config.Canvas
                ELSE IF existing # 0 THEN existing
                ELSE canvasCount + 1
      b == backendCount + 1
  IN  /\ i \in inits
      /\ inits' = inits \ {i}
      /\ canvasCount' = IF created THEN canvasCount + 1 ELSE canvasCount
      /\ inDocument' = IF InDocument(canvas) THEN inDocument ELSE Append(inDocument, canvas)
      /\ Canvas' = canvas
      /\ IF backend = 0
         THEN /\ backend' = b
              /\ backendCount' = b
              /\ eventsInstalled' = TRUE
              /\ listeners' = IF eventsInstalled THEN listeners
                              ELSE listeners \o Installed(canvas, b)
         ELSE UNCHANGED << backend, backendCount, eventsInstalled, listeners >>
      /\ acted' = << >>
      /\ call' = [NoCall EXCEPT !.op = "initializeContinue", !.by = "engine", !.id = i.id]
      /\ UNCHANGED << CanvasSize, disposed, initCount, notEngineVars >>

destroyLive2D ==
  /\ backend' = 0
  /\ disposed' = IF backend # 0 THEN disposed \cup {backend} ELSE disposed
  /\ inDocument' = SelectSeq(inDocument, LAMBDA c : c # Canvas)
  /\ Canvas' = 0
  /\ eventsInstalled' = FALSE
  /\ acted' = << >>
  /\ call' = [NoCall EXCEPT !.op = "destroyLive2D", !.by = "engine", !.id = backend]
  /\ UNCHANGED << CanvasSize, canvasCount, backendCount, listeners, inits, initCount,
                  notEngineVars >>

\* The backends of the listeners added for a target and an event type, in the
\* order in which they were added.
RECURSIVE Backends(_, _, _)
Backends(ls, target, type) ==
  IF ls = << >> THEN << >>
  ELSE (IF Head(ls).target = target /\ Head(ls).type = type THEN << Head(ls).backend >>
        ELSE << >>) \o Backends(Tail(ls), target, type)

\* A pointer event on a canvas of the document: onDown, onMove or onUp of each
\* listener drives the manager of the backend it closed over.
PointerEvent(canvas) ==
  /\ InDocument(canvas)
  /\ acted' = Backends(listeners, canvas, "pointer")
  /\ call' = [NoCall EXCEPT !.op = "pointer", !.by = "engine", !.id = canvas]
  /\ UNCHANGED << backend, eventsInstalled, Canvas, CanvasSize, inDocument, canvasCount,
                  backendCount, disposed, listeners, inits, initCount, notEngineVars >>

\* A resize of the window: each listener calls backend.resize when the
\* configured size is 'auto'.
ResizeEvent ==
  /\ acted' = IF CanvasSize = "auto" THEN Backends(listeners, 0, "resize") ELSE << >>
  /\ call' = [NoCall EXCEPT !.op = "resize", !.by = "engine"]
  /\ UNCHANGED << backend, eventsInstalled, Canvas, CanvasSize, inDocument, canvasCount,
                  backendCount, disposed, listeners, inits, initCount, notEngineVars >>

NextEngine ==
  \/ \E config \in Configs : initializeLive2D(config)
  \/ \E i \in inits : initializeContinue(i)
  \/ destroyLive2D
  \/ \E canvas \in 1..MaxInits : PointerEvent(canvas)
  \/ ResizeEvent

SpecEngine == Init /\ [][NextEngine]_vars

(***************************************************************************)
(* cacheFetch over the IndexedDB object store.  The bytes of a url are     *)
(* numbered: content[url] is what the network serves now.  The requests    *)
(* made to the database run in the order in which they were made.          *)
(***************************************************************************)
\* The entries of the object store whose url is the given one.
Entries(url) == SelectSeq(store, LAMBDA item : item.url = url)

\* cacheFetch(url) up to its first await: selectItemIndexDB when the cache is
\* to be read, fetch(url) otherwise.
cacheFetch(url) ==
  LET id == fetchCount + 1
  IN  /\ id <= MaxFetches
      /\ fetchCount' = id
      /\ IF ~refreshCache
         THEN /\ requests' = Append(requests, [kind |-> "get", id |-> id, url |-> url,
                                               arraybuffer |-> 0])
              /\ UNCHANGED responses
         ELSE /\ responses' = responses \cup {[id |-> id, url |-> url]}
              /\ UNCHANGED requests
      /\ call' = [NoCall EXCEPT !.op = "cacheFetch", !.by = "cache", !.id = id]
      /\ UNCHANGED << store, content, refreshCache, lastFetched, notCacheVars >>

\* The database runs its oldest request.  index('url').get(url): the entry is
\* returned by cacheFetch, or fetch(url) is called when there is none.
\* store.add(value): the entry is added unless the unique index on url holds
\* an entry of that url, in which case the request fails and nothing changes.
RequestDone ==
  LET q == Head(requests)
      found == Entries(q.url)
  IN  /\ requests # << >>
      /\ requests' = Tail(requests)
      /\ IF q.kind = "get"
         THEN /\ responses' = IF found = << >> THEN responses \cup {[id |-> q.id, url |-> q.url]}
                              ELSE responses
              /\ call' = [NoCall EXCEPT !.op = "get", !.by = "cache", !.id = q.id,
                                        !.ok = (found # << >>),
                                        !.value = IF found = << >> THEN 0
                                                  ELSE found[1].arraybuffer]
              /\ UNCHANGED store
         ELSE /\ store' = IF found = << >>
                          THEN Append(store, [url |-> q.url, arraybuffer |-> q.arraybuffer])
                          ELSE store
              /\ call' = [NoCall EXCEPT !.op = "add", !.by = "cache", !.id = q.id,
                                        !.ok = (found = << >>), !.value = q.arraybuffer]
              /\ UNCHANGED responses
      /\ UNCHANGED << content, refreshCache, fetchCount, lastFetched, notCacheVars >>

\* cacheFetch from the awaited fetch(url) to its return: createItemIndexDB is
\* called and not awaited.
ResponseDone(f) ==
  /\ f \in responses
  /\ responses' = responses \ {f}
  /\ requests' = Append(requests, [kind |-> "add", id |-> f.id, url |-> f.url,
                                   arraybuffer |-> content[f.url]])
  /\ lastFetched' = [lastFetched EXCEPT ![f.url] = content[f.url]]
  /\ call' = [NoCall EXCEPT !.op = "response", !.by = "cache", !.id = f.id,
                            !.value = content[f.url]]
  /\ UNCHANGED << store, content, refreshCache, fetchCount, notCacheVars >>

\* CacheFetchSetting.refreshCache = refresh
setRefreshCache(refresh) ==
  /\ refreshCache' = refresh
  /\ call' = [NoCall EXCEPT !.op = "setRefreshCache", !.by = "cache", !.ok = refresh]
  /\ UNCHANGED << store, content, responses, requests, fetchCount, lastFetched,
                  notCacheVars >>

\* The server replaces the bytes of a url.
Publish(url) ==
  /\ content[url] < MaxVersions
  /\ content' = [content EXCEPT ![url] = @ + 1]
  /\ call' = [NoCall EXCEPT !.op = "publish", !.by = "network"]
  /\ UNCHANGED << store, refreshCache, responses, requests, fetchCount, lastFetched,
                  notCacheVars >>

NextCache ==
  \/ \E url \in CacheUrls : cacheFetch(url)
  \/ RequestDone
  \/ \E f \in responses : ResponseDone(f)
  \/ \E refresh \in BOOLEAN : setRefreshCache(refresh)
  \/ \E url \in CacheUrls : Publish(url)

SpecCache == Init /\ [][NextCache]_vars

(***************************************************************************)
(* The two wrappers of window.fetch: installFetchCache and                 *)
(* installFetchCompat.  A function is "native", the wrapper of a module,   *)
(* or "null"; fetch.bind(window) behaves as the function it binds.         *)
(***************************************************************************)
\* install of module w: if (installed) return; originalFetch = fetch.bind(window);
\* window.fetch = the wrapper.
install(w) ==
  /\ IF installed[w]
     THEN UNCHANGED << installed, originalFetch, windowFetch >>
     ELSE /\ installed' = [installed EXCEPT ![w] = TRUE]
          /\ originalFetch' = [originalFetch EXCEPT ![w] = windowFetch]
          /\ windowFetch' = w
  /\ call' = [NoCall EXCEPT !.op = "install", !.by = w, !.ok = ~installed[w]]
  /\ UNCHANGED << LoadFromCache, notWrapperVars >>

\* uninstall of module w: if (!installed) return; window.fetch = originalFetch;
\* installed = false; originalFetch = null.
uninstall(w) ==
  /\ IF ~installed[w]
     THEN UNCHANGED << installed, originalFetch, windowFetch >>
     ELSE /\ windowFetch' = IF originalFetch[w] # "null" THEN originalFetch[w] ELSE windowFetch
          /\ installed' = [installed EXCEPT ![w] = FALSE]
          /\ originalFetch' = [originalFetch EXCEPT ![w] = "null"]
  /\ call' = [NoCall EXCEPT !.op = "uninstall", !.by = w, !.ok = installed[w]]
  /\ UNCHANGED << LoadFromCache, notWrapperVars >>

installFetchCache == install("cache")

uninstallFetchCache == uninstall("cache")

installFetchCompat == install("compat")

uninstallFetchCompat == uninstall("compat")

\* rewriteLive2dSampleUrl on the three kinds of url: one under the sample's
\* /Resources/Haru/ is rewritten to the configured model's directory.
rewriteLive2dSampleUrl(url) == IF url = "sample" THEN "rewritten" ELSE url

\* What calling the function fn with the input does: the wrappers entered, in
\* order, and how the call ends.  A wrapper calls the originalFetch its module
\* holds when the call is made; calling null throws a TypeError.
RECURSIVE Invoke(_, _, _)
Invoke(fn, input, entered) ==
  IF fn = "native" THEN [entered |-> entered, ends |-> "network", url |-> input.url]
  ELSE IF fn = "null" \/ Len(entered) > Cardinality(Wrappers)
  THEN [entered |-> entered, ends |-> "throw", url |-> input.url]
  ELSE IF fn = "compat"
  THEN Invoke(originalFetch[fn], [input EXCEPT !.url = rewriteLive2dSampleUrl(@)],
              Append(entered, fn))
  ELSE IF LoadFromCache /\ input.method = "GET" /\ input.cached
  THEN [entered |-> Append(entered, fn), ends |-> "cache", url |-> input.url]
  ELSE Invoke(originalFetch[fn], input, Append(entered, fn))

\* The inputs of a fetch: a url, a method, and whether the store has the url.
Inputs == [url : {"plain", "sample"}, method : {"GET", "POST"}, cached : BOOLEAN]

\* window.fetch(input), taken as one step.
fetch(input) ==
  LET out == Invoke(windowFetch, input, << >>)
  IN  /\ call' = [NoCall EXCEPT !.op = "fetch", !.by = out.ends, !.id = Len(out.entered),
                                !.threw = (out.ends = "throw")]
      /\ UNCHANGED << wrapperVars, notWrapperVars >>

\* setRuntimeConfig({ LoadFromCache, Live2dDB })
setLoadFromCache(enabled) ==
  /\ LoadFromCache' = enabled
  /\ call' = [NoCall EXCEPT !.op = "setLoadFromCache", !.by = "config", !.ok = enabled]
  /\ UNCHANGED << windowFetch, installed, originalFetch, notWrapperVars >>

NextWrappers ==
  \/ installFetchCache
  \/ uninstallFetchCache
  \/ installFetchCompat
  \/ uninstallFetchCompat
  \/ \E input \in Inputs : fetch(input)
  \/ \E enabled \in BOOLEAN : setLoadFromCache(enabled)

SpecWrappers == Init /\ [][NextWrappers]_vars

(***************************************************************************)
(* Properties.                                                             *)
(***************************************************************************)
History(by) == IF by = "analyser" THEN analyserHistory ELSE handlerHistory

\* The number of frames of the audio a tracker holds.
HandlerFrames == Len(parsed.wav.pcm[1])
AnalyserFrames == Len(_pcmData.pcm[1])

HandlerLoaded == parsed.kind = "ok" /\ HandlerFrames > 0
AnalyserLoaded == _pcmData.kind = "ok" /\ Len(_pcmData.pcm) > 0 /\ AnalyserFrames > 0

\* C1: when start(B) has been called before the decode begun by start(A) has
\* resolved, A's resolution is a no-op: it changes neither the audio nor the
\* cursor, the clock or the loudness of the tracker (handler and analyser).
C1_StaleResolutionIsNoOp ==
  [][(call'.op = "settle" /\ call'.stale) =>
       /\ parsed' = parsed /\ sampleCursor' = sampleCursor
       /\ timeSeconds' = timeSeconds /\ lastRms' = lastRms
       /\ _pcmData' = _pcmData /\ _sampleOffset' = _sampleOffset
       /\ _userTimeSeconds' = _userTimeSeconds /\ _lastRms' = _lastRms]_vars

\* C2: start(locator) has, when it returns, set the cursor, the clock and the
\* loudness to 0 and the audio to absent; and an advance made while the decode
\* of the latest start is pending returns 0.
C2_StartResetsSynchronously ==
  /\ [][call'.op = "start" =>
          IF call'.by = "handler"
          THEN sampleCursor' = 0 /\ timeSeconds' = 0 /\ lastRms' = 0 /\ parsed' = Null
          ELSE _sampleOffset' = 0 /\ _userTimeSeconds' = 0 /\ _lastRms' = 0
               /\ _pcmData' = Null]_vars
  /\ [](call.op = "update" /\ History(call.by).status = "pending" => call.value = 0)

\* C3: while the decode of the latest start is pending, and after it has failed
\* until the next start, every advance returns 0.
C3_SilentUntilLoaded ==
  (call.op = "update" /\ History(call.by).status \in {"pending", "failed"})
    => (call.value = 0 /\ ~call.threw)

\* C4: no start, advance or getCurrentValue raises an exception or fails to
\* return, whatever bytes the fetches delivered.
C4_NoExceptionEscapes ==
  /\ ~hung
  /\ call.op \in {"start", "update", "getRms"} => ~call.threw

\* C5: the cursor never decreases in an advance, and 0 <= cursor <= frameCount
\* in every state in which the tracker holds audio.
C5_CursorMonotoneAndBounded ==
  /\ [](parsed.kind = "ok" => 0 <= sampleCursor /\ sampleCursor <= HandlerFrames)
  /\ [](_pcmData.kind = "ok" /\ Len(_pcmData.pcm) > 0
          => 0 <= _sampleOffset /\ _sampleOffset <= AnalyserFrames)
  /\ [][call'.op = "update" =>
          sampleCursor' >= sampleCursor /\ _sampleOffset' >= _sampleOffset]_vars

\* C6: with audio loaded, an advance whose target sample is not beyond the
\* cursor leaves the loudness as it was and returns it.
C6_HoldLastValue ==
  [][/\ (call'.op = "update" /\ call'.by = "handler" /\ HandlerLoaded
          /\ Min(HandlerFrames, SampleAt(timeSeconds', parsed.wav.sampleRate)) <= sampleCursor)
         => (lastRms' = lastRms /\ call'.value = lastRms)
     /\ (call'.op = "update" /\ call'.by = "analyser" /\ AnalyserLoaded
          /\ Min(AnalyserFrames, SampleAt(_userTimeSeconds', _sampleRate)) <= _sampleOffset)
         => (_lastRms' = _lastRms /\ call'.value = _lastRms)]_vars

\* C7: once the cursor is at frameCount, every further advance leaves it there
\* and leaves the loudness at the RMS of the final window.
C7_TerminalSteadyState ==
  [][/\ (call'.op = "update" /\ call'.by = "handler" /\ HandlerLoaded
          /\ sampleCursor = HandlerFrames)
         => (sampleCursor' = sampleCursor /\ lastRms' = lastRms)
     /\ (call'.op = "update" /\ call'.by = "analyser" /\ AnalyserLoaded
          /\ _sampleOffset = AnalyserFrames)
         => (_sampleOffset' = _sampleOffset /\ _lastRms' = _lastRms)]_vars

\* C8: getRms changes no field and returns the stored loudness, which is the
\* loudness the most recent advance determined, or 0 if no advance has consumed
\* samples since the last start.
C8_GetRmsIsPureRead ==
  /\ [][call'.op = "getRms" =>
          /\ UNCHANGED << parsed, sampleCursor, timeSeconds, lastRms >>
          /\ UNCHANGED << _pcmData, _sampleRate, _channelCount, _lastRms, _sampleOffset,
                          _userTimeSeconds >>
          /\ call'.value = (IF call'.by = "handler" THEN lastRms ELSE _lastRms)]_vars
  /\ [](call.op = "getRms" =>
          \/ call.value = History(call.by).determined
          \/ ~History(call.by).consumed /\ call.value = 0)

\* The buffers the decoder must reject: fewer than 12 bytes, a wrong RIFF or
\* WAVE tag, a format code other than 1, a bit depth outside {8, 16, 24, 32},
\* no fmt chunk, no data chunk, no channels, or a sample rate of 0.
RejectionSet ==
  { Wav(f) : f \in { g \in WavShapes :
                       \/ g.audioFormat # 1
                       \/ g.bitsPerSample \notin {8, 16, 24, 32}
                       \/ g.channels = 0
                       \/ g.sampleRate = 0 } }
  \cup { << >>,
         << 82, 73, 70 >>,
         TagRIFF \o U32(0),
         << 82, 73, 70, 88 >> \o U32(0) \o TagWAVE \o Fmt(1, 1, 2, 16)
            \o Chunk(TagData, 2, << 0, 64 >>),
         TagRIFF \o U32(0) \o << 87, 65, 86, 88 >> \o Fmt(1, 1, 2, 16)
            \o Chunk(TagData, 2, << 0, 64 >>),
         Riff,
         Riff \o Fmt(1, 1, 2, 16),
         Riff \o Chunk(TagData, 2, << 0, 64 >>),
         Riff \o Chunk(TagData, 0, << >>) \o Chunk(TagFmt, 2, U16(2)) }

\* C9: for every buffer of the rejection set the decoder returns its failure
\* value (null, false); it neither raises nor produces audio.
C9_RejectionSetFailsAsValue ==
  (decoded.by # "none" /\ buffer \in RejectionSet) => decoded.ret \in {"null", "false"}

\* Well-formed files whose data chunk is last and declares more bytes than the
\* buffer holds after the chunk's payload offset (offset 44 in these files).
TruncatedSet ==
  { Wav(f) : f \in { g \in WavShapes :
                       /\ g.audioFormat = 1 /\ g.channels > 0 /\ g.sampleRate > 0
                       /\ g.bitsPerSample \in {8, 16}
                       /\ g.fmtFirst /\ g.over > 0 } }

\* C10: a buffer whose data chunk declares more bytes than remain decodes, with
\* frameCount = floor(remaining bytes / (channelCount * bytesPerSample)).
C10_TruncationTolerance ==
  (decoded.by # "none" /\ buffer \in TruncatedSet) =>
     /\ decoded.ret \in {"ok", "true"}
     /\ decoded.audio.kind = "ok"
     /\ LET channels == getUint16(buffer, 22)
            bytesPerSample == getUint16(buffer, 34) \div 8
        IN  /\ decoded.audio.wav.channels = channels
            /\ Len(decoded.audio.wav.pcm) = channels
            /\ \A c \in 1..channels :
                 Len(decoded.audio.wav.pcm[c]) = (Len(buffer) - 44) \div (channels * bytesPerSample)

\* Every sample of every channel is 0.
AllZero(pcm) == \A c \in DOMAIN pcm : \A i \in DOMAIN pcm[c] : pcm[c][i] = << 0, 0 >>

\* Every channel alternates between +1.0 and -1.0, frame by frame.
Alternating(pcm) ==
  \A c \in DOMAIN pcm : \A i \in DOMAIN pcm[c] :
    /\ pcm[c][i] \in { << 1, 0 >>, << -1, 0 >> }
    /\ i > 1 => pcm[c][i] # pcm[c][i - 1]

\* C11: with audio loaded whose samples are all 0 every advance returns 0,
\* whatever the window; with audio loaded whose samples alternate between +1.0
\* and -1.0, an advance whose window [cursor, target) covers whole periods
\* returns 1.0 (handler and analyser).
C11_KnownSignalRms ==
  [][/\ (call'.op = "update" /\ call'.by = "handler" /\ HandlerLoaded)
         => /\ AllZero(parsed.wav.pcm) => (call'.value = 0 /\ ~call'.threw)
            /\ LET target == Min(HandlerFrames, SampleAt(timeSeconds', parsed.wav.sampleRate))
               IN  (Alternating(parsed.wav.pcm) /\ target > sampleCursor
                      /\ (target - sampleCursor) % 2 = 0)
                     => (call'.value = RmsScale /\ ~call'.threw)
     /\ (call'.op = "update" /\ call'.by = "analyser" /\ AnalyserLoaded)
         => /\ AllZero(_pcmData.pcm) => (call'.value = 0 /\ ~call'.threw)
            /\ LET target == Min(AnalyserFrames, SampleAt(_userTimeSeconds', _sampleRate))
               IN  (Alternating(_pcmData.pcm) /\ target > _sampleOffset
                      /\ (target - _sampleOffset) % 2 = 0)
                     => (call'.value = RmsScale /\ ~call'.threw)]_vars

\* C12: a decode that fails leaves the audio the tracker holds untouched
\* (samples, channel count, sample rate), also when the failing load is a
\* superseded or a replacement load; and the channel count of the audio held
\* always equals the number of its sample arrays.
C12_FailedDecodeLeavesAudio ==
  /\ [][(call'.op = "settle" /\ ~call'.ok) =>
          /\ parsed' = parsed
          /\ _pcmData' = _pcmData /\ _channelCount' = _channelCount
          /\ _sampleRate' = _sampleRate]_vars
  /\ [](parsed.kind = "ok" => parsed.wav.channels = Len(parsed.wav.pcm))
  /\ [](_pcmData.kind = "ok" => _channelCount = Len(_pcmData.pcm))

\* The RMS of the frames [from, target) of every channel of pcm pooled together.
WindowRms(pcm, from, target) ==
  Sqrt(SumChannels(pcm, 0, Len(pcm), from, target), Len(pcm) * (target - from))

\* C13: an advance that finds target = min(frameCount, floor(elapsed * rate))
\* beyond the cursor returns the RMS of exactly the frames [cursor, target) of
\* every channel pooled together (channelCount * (target - cursor) samples) and
\* leaves the cursor at target, so that successive windows are disjoint and
\* contiguous (handler and analyser).
C13_WindowIsCursorToTarget ==
  [][/\ (call'.op = "update" /\ call'.by = "handler" /\ HandlerLoaded)
         => LET target == Min(HandlerFrames, SampleAt(timeSeconds', parsed.wav.sampleRate))
            IN  target > sampleCursor
                  => /\ ~call'.threw
                     /\ parsed.wav.channels = Len(parsed.wav.pcm)
                     /\ call'.value = WindowRms(parsed.wav.pcm, sampleCursor, target)
                     /\ lastRms' = call'.value
                     /\ sampleCursor' = target
     /\ (call'.op = "update" /\ call'.by = "analyser" /\ AnalyserLoaded)
         => LET target == Min(AnalyserFrames, SampleAt(_userTimeSeconds', _sampleRate))
            IN  target > _sampleOffset
                  => /\ ~call'.threw
                     /\ _channelCount = Len(_pcmData.pcm)
                     /\ call'.value = WindowRms(_pcmData.pcm, _sampleOffset, target)
                     /\ _lastRms' = call'.value
                     /\ _sampleOffset' = target]_vars

\* C14: once the voice has been stopped without a new lip-sync load being
\* begun (a motion without a sound file, a motion started while voice is
\* disabled, setVoiceEnabled(false)), and until a lip-sync load begins, every
\* frame's update feeds loudness 0 into the lip-sync and the analyser's cursor
\* does not advance.
C14_StoppedVoiceIsSilent ==
  /\ [](stopped /\ call.op = "update" => call.value = 0 /\ ~call.threw)
  /\ [][stopped /\ call'.op = "update" => _sampleOffset' = _sampleOffset]_vars

\* C15: in every state the render list _models holds exactly the models that
\* are values of _modelsMap, each once, and none of them released.
C15_RenderListMatchesMap ==
  LET listed == { _models[i] : i \in DOMAIN _models }
      mapped == { _modelsMap[a] : a \in Actors } \ {0}
  IN  /\ listed = mapped
      /\ Cardinality(listed) = Len(_models)
      /\ \A a, b \in Actors : (a # b /\ _modelsMap[a] # 0) => _modelsMap[a] # _modelsMap[b]
      /\ listed \cap released = {}

\* C16: for every buffer the decode terminates and returns audio or its
\* failure value; the offsets of the chunk walk strictly increase, a chunk
\* header is read only where it lies inside the buffer, and the walk stops at
\* the first offset where it would not.
C16_DecodeTerminates ==
  /\ decoded.by # "none" => (~hung /\ decoded.ret \in {"ok", "null", "true", "false"})
  /\ byteLength(buffer) >= 12 =>
       LET offsets == WalkOffsets(buffer, ChunkInit)
           n == Len(offsets)
       IN  /\ \A i \in 1..(n - 1) :
                 offsets[i] < offsets[i + 1] /\ offsets[i] + 8 <= byteLength(buffer)
           /\ offsets[n] + 8 > byteLength(buffer)

\* What each decoder makes of a buffer: its return and the audio it leaves.
HandlerOutcome(b) ==
  LET q == parseWav(b)
  IN  [ret |-> q.kind, audio |-> IF q.kind = "ok" THEN q ELSE Null]

NewAnalyser ==
  [pcmData |-> Null, sampleRate |-> 44100, channelCount |-> 1, lastRms |-> 0,
   sampleOffset |-> 0, userTimeSeconds |-> 0]

AnalyserOutcome(b) ==
  LET out == AudioAnalyser_parseWav(b, NewAnalyser)
  IN  [ret |-> out.ret,
       audio |-> IF out.this.pcmData.kind # "ok" THEN Null
                 ELSE [kind |-> "ok",
                       wav |-> [sampleRate |-> out.this.sampleRate,
                                channels |-> out.this.channelCount,
                                pcm |-> out.this.pcmData.pcm]]]

Outcome(by, b) == IF by = "analyser" THEN AnalyserOutcome(b) ELSE HandlerOutcome(b)

\* Well-formed files whose data chunk precedes the fmt chunk.
DataFirstShapes ==
  { g \in WavShapes : /\ ~g.fmtFirst /\ g.over = 0 /\ Len(g.payload) % 2 = 0
                      /\ g.audioFormat = 1 /\ g.channels > 0 /\ g.sampleRate > 0
                      /\ g.bitsPerSample \in {8, 16} }

\* C17: a file whose data chunk precedes its fmt chunk decodes to the same
\* audio as the file with the two chunks in the other order, and a file with
\* several fmt or data chunks decodes as the file made of the last of each.
C17_LastChunkWinsAnyOrder ==
  decoded.by # "none" =>
    /\ \A g \in DataFirstShapes :
         buffer = Wav(g) =>
           /\ decoded.ret \in {"ok", "true"}
           /\ decoded.audio = Outcome(decoded.by, Wav([g EXCEPT !.fmtFirst = TRUE])).audio
    /\ \A d \in Duplicates :
         buffer = d.file =>
           /\ decoded.ret \in {"ok", "true"}
           /\ decoded.audio = Outcome(decoded.by, d.last).audio

\* C18: chunks are padded to even length: a fmt or data chunk that follows an
\* odd-sized chunk and its pad byte is recognised, the file decoding as it does
\* without the odd chunk; and each header of the walk is read at p + s, or at
\* p + s + 1 when s is odd, after a chunk with payload offset p and size s.
C18_EvenBytePadding ==
  /\ decoded.by # "none" =>
       \A d \in Padded :
         buffer = d.file =>
           /\ decoded.ret \in {"ok", "true"}
           /\ decoded.audio = Outcome(decoded.by, d.plain).audio
  /\ byteLength(buffer) >= 12 =>
       LET offsets == WalkOffsets(buffer, ChunkInit)
       IN  \A i \in 1..(Len(offsets) - 1) :
             LET p == offsets[i] + 8
                 size == getUint32(buffer, offsets[i] + 4)
             IN  offsets[i + 1] = IF size % 2 = 0 THEN p + size ELSE p + size + 1

\* C19: an advance made while the audio is absent or has no frames sets the
\* loudness to 0 and returns 0 and changes neither the clock nor the cursor,
\* whatever dt is (handler and analyser).
C19_NoAudioNoClock ==
  [][/\ (call'.op = "update" /\ call'.by = "handler" /\ ~HandlerLoaded)
         => /\ lastRms' = 0 /\ call'.value = 0 /\ ~call'.threw
            /\ timeSeconds' = timeSeconds /\ sampleCursor' = sampleCursor
     /\ (call'.op = "update" /\ call'.by = "analyser" /\ ~AnalyserLoaded)
         => /\ _lastRms' = 0 /\ call'.value = 0 /\ ~call'.threw
            /\ _userTimeSeconds' = _userTimeSeconds
            /\ _sampleOffset' = _sampleOffset]_vars

\* C20: the audio of every successful decode has at least one channel, a
\* sample rate of at least 1 and exactly channelCount sample sequences, all of
\* one length; for a file whose data chunk is last (payload at offset 44) that
\* length is floor(available bytes / (channelCount * bytesPerSample)), also
\* when the payload is not a whole number of frames.
C20_ParsedAudioWellFormed ==
  decoded.ret \in {"ok", "true"} =>
    /\ decoded.audio.kind = "ok"
    /\ LET wav == decoded.audio.wav
       IN  /\ wav.channels >= 1
           /\ wav.sampleRate >= 1
           /\ Len(wav.pcm) = wav.channels
           /\ \A c, d \in DOMAIN wav.pcm : Len(wav.pcm[c]) = Len(wav.pcm[d])
           /\ \A g \in WavShapes :
                (g.fmtFirst /\ buffer = Wav(g)) =>
                  \A c \in DOMAIN wav.pcm :
                    Len(wav.pcm[c]) =
                      Len(g.payload) \div (g.channels * (g.bitsPerSample \div 8))

\* The files whose samples are compared: where the payload of the data chunk
\* begins, and the channel count and bit depth their fmt chunk declares.
SampleFiles ==
  { [file |-> Wav(g), dataOffset |-> IF g.fmtFirst THEN 44 ELSE 20,
     channels |-> g.channels, bitsPerSample |-> g.bitsPerSample] :
      g \in { h \in WavShapes : /\ h.audioFormat = 1 /\ h.channels > 0 /\ h.sampleRate > 0
                                /\ h.bitsPerSample \in {8, 16} } }
  \cup { [file |-> Riff \o Fmt(1, 1, 2, 24) \o Chunk(TagData, 6, << 0, 0, 64, 0, 0, 192 >>),
          dataOffset |-> 44, channels |-> 1, bitsPerSample |-> 24],
         [file |-> Riff \o Fmt(1, 1, 2, 32)
                     \o Chunk(TagData, 8, << 1, 0, 0, 64, 255, 255, 255, 127 >>),
          dataOffset |-> 44, channels |-> 1, bitsPerSample |-> 32] }

\* The little-endian integer of n bytes at byte offset p, two's complement.
SignedAt(view, p, n) ==
  LET top == view[p + n]
      low == IF n = 1 THEN 0
             ELSE IF n = 2 THEN view[p + 1]
             ELSE IF n = 3 THEN view[p + 1] + 256 * view[p + 2]
             ELSE view[p + 1] + 256 * view[p + 2] + 65536 * view[p + 3]
  IN  low + (2 ^ (8 * (n - 1))) * (IF top >= 128 THEN top - 256 ELSE top)

\* The sample a file's bytes at offset p stand for: byte - 128 over 128, or
\* the signed integer over 2^(bits - 1), as the nearest float.
ExpectedSample(view, p, bitsPerSample) ==
  IF bitsPerSample = 8 THEN Frac(view[p + 1] - 128, 7)
  ELSE Fround(SignedAt(view, p, bitsPerSample \div 8), bitsPerSample - 1)

\* -1.0 <= v <= 1.0
InUnitRange(v) == v[2] <= 30 /\ v[1] <= 2 ^ v[2] /\ -(2 ^ v[2]) <= v[1]

\* C21: in the audio of a successful decode the sample of frame i and channel
\* c is the little-endian sample at dataOffset + (i * channelCount + c) *
\* bytesPerSample, read as byte - 128 (8 bit) or as a signed integer (16, 24,
\* 32 bit) and divided by 128, 32768, 8388608, 2147483648; every stored sample
\* of every successful decode lies in [-1.0, 1.0].
C21_SampleDecodingExact ==
  decoded.ret \in {"ok", "true"} =>
    /\ decoded.audio.kind = "ok"
    /\ LET pcm == decoded.audio.wav.pcm
       IN  /\ \A c \in DOMAIN pcm : \A i \in DOMAIN pcm[c] : InUnitRange(pcm[c][i])
           /\ \A f \in SampleFiles :
                buffer = f.file =>
                  \A c \in DOMAIN pcm : \A i \in DOMAIN pcm[c] :
                    pcm[c][i] =
                      ExpectedSample(buffer,
                        f.dataOffset + ((i - 1) * f.channels + (c - 1)) * (f.bitsPerSample \div 8),
                        f.bitsPerSample)

\* C22: in every reachable state of a tracker the stored loudness, which is
\* what an advance returns and what getRms reads, is a number in [0, 1].
C22_LoudnessInUnitInterval ==
  /\ lastRms \in 0..RmsScale
  /\ _lastRms \in 0..RmsScale
  /\ call.op \in {"update", "getRms"} => call.value \in 0..RmsScale

\* An advance of the analyser has computed the loudness of a full-scale window.
C22_Witness ==
  /\ call.op = "update" /\ call.by = "analyser" /\ ~call.threw
  /\ _sampleOffset = 2 /\ _lastRms = RmsScale /\ call.value = RmsScale

\* What an avatar observes of its trackers: the fields of the handler it holds
\* and of its model's analyser.
Observed(a) ==
  [handler |-> IF holds[a] = 0 THEN NewHandler ELSE handlers[holds[a]],
   analyser |-> analysers[a]]

\* C23: a start or an advance issued for one avatar never changes the audio,
\* cursor, clock or loudness another avatar observes.
C23_TrackersAreIsolated ==
  [][\A a, b \in Actors :
       (a # b /\ caller' = a /\ call'.op \in {"start", "update"}) =>
         Observed(b)' = Observed(b)]_vars

\* C24: whenever EnableVoice is false, currentSource is null; in particular a
\* playVoiceFromUrl that was in flight when setVoiceEnabled(false) ran does
\* not make a source current while voice is still disabled.
C24_DisabledVoiceHasNoSource == ~EnableVoice => currentSource = 0

\* C29: when a loadModel call for an actor that has a registered model fails
\* because model.load rejects, and nothing else ran between the call and the
\* rejection, the model registered before the call is still registered,
\* unreleased and in the render list.
C29_FailedLoadKeepsRegistry ==
  [][(/\ call.op = "loadModel" /\ call.value # 0
      /\ call'.op = "loadModelSettle" /\ call'.id = call.id /\ ~call'.ok) =>
       /\ \E a \in Actors : _modelsMap'[a] = call.value
       /\ call.value \notin released'
       /\ \E i \in DOMAIN _models' : _models'[i] = call.value]_vars

\* C30: a message that has been set is hidden only once its own duration has
\* elapsed: while the latest message has no duration, or its duration has not
\* elapsed, the box is revealed and shows that message.
C30_MessageStaysForItsDuration ==
  (messageCount > 0 /\ (shownUntil = NoDuration \/ clock < shownUntil)) =>
    (visible /\ textContent = messageCount)

\* C28: for any sequence of start() and stop() at most one animation-frame
\* callback is pending, and it is the one _requestId names; after stop() no
\* update()/draw() runs until start() is called again.
C28_OneFramePending ==
  /\ [](/\ Cardinality(pending) <= 1
        /\ pending = IF _requestId = 0 THEN {} ELSE {_requestId})
  /\ [][(halted /\ framesDrawn' # framesDrawn) => call'.op = "start"]_vars

\* The loop has drawn frames, was stopped while a request was pending, and has
\* been started again.
C28_Witness ==
  /\ call.op = "start" /\ call.id = _requestId /\ _requestId >= 3
  /\ framesDrawn >= 2 /\ pending = {_requestId} /\ ~halted

\* C27: after any sequence of initializeLive2D and destroyLive2D a pointer or
\* resize event is handled at most once, and its handler acts on the current
\* backend only, never on a disposed one.
C27_EventsReachCurrentBackend ==
  call.op \in {"pointer", "resize"} =>
    /\ Len(acted) <= 1
    /\ \A i \in DOMAIN acted : acted[i] = backend /\ acted[i] \notin disposed

\* C25: once a cacheFetch(url) has gone to the network and every store write
\* for url has settled, the store holds exactly one entry for url and it has
\* the bytes of the most recent network fetch of url; and a cacheFetch that is
\* answered from the store returns those bytes.
C25_StoreHoldsLatestFetch ==
  \A url \in CacheUrls :
    (/\ lastFetched[url] # 0
     /\ \A i \in DOMAIN requests : ~(requests[i].kind = "add" /\ requests[i].url = url)) =>
      /\ Len(Entries(url)) = 1
      /\ Entries(url)[1].arraybuffer = lastFetched[url]

\* C26: in every state a call of window.fetch enters installed wrappers only,
\* each at most once, and ends without a TypeError; so once every wrapper has
\* been uninstalled, in any order, window.fetch is the original function.
C26_OnlyInstalledWrappersInChain ==
  \A input \in Inputs :
    LET out == Invoke(windowFetch, input, << >>)
    IN  /\ out.ends # "throw"
        /\ \A i \in DOMAIN out.entered : installed[out.entered[i]]
        /\ \A i, j \in DOMAIN out.entered : i # j => out.entered[i] # out.entered[j]

====
